---------------------------- MODULE Spec2Model ----------------------------
(***************************************************************************)
(* State-machine model of the animation core of bb_28_animation:           *)
(* AnimationManager (src/modules/animation.py), the geometry helpers of    *)
(* src/modules/utils.py and the window handlers of src/main.py.            *)
(*                                                                         *)
(* Numbers.  Coordinates and velocities are integers (the float arrays of  *)
(* the program sampled on the integer grid).  A fade alpha a in [0,1] is   *)
(* held as the integer a*AlphaOne, so 0.01 is AlphaThreshold and the       *)
(* per-frame delta transition_speed*(1/fps) is Delta; the sampled slider   *)
(* and fps values make it a whole number of units.                         *)
(*                                                                         *)
(* Randomness.  np.random draws are taken from small sample sets.          *)
(*                                                                         *)
(* scipy.spatial.Delaunay is computed by the empty-circumcircle rule on    *)
(* the integer points (operator Delaunay); degenerate input makes it       *)
(* raise, as Qhull does.                                                   *)
(***************************************************************************)
EXTENDS Integers, Sequences, FiniteSets, TLC

\* ------------------------------------------------------------- evaluation

\* F applied to the value of v: a Python assignment x = v followed by the
\* statements F that read x, with v computed once
Let(v, F(_)) == CHOOSE y \in {F(x) : x \in {v}} : TRUE

\* ------------------------------------------------------------------ geometry

\* twice the signed area of triangle a b c (>0 counter-clockwise)
Orient(a, b, c) ==
    (b[1] - a[1]) * (c[2] - a[2]) - (b[2] - a[2]) * (c[1] - a[1])

Sq(x) == x * x

\* determinant of the in-circle test for d against the circle through a b c
InCircleDet(a, b, c, d) ==
    LET ax == a[1] - d[1]  ay == a[2] - d[2]
        bx == b[1] - d[1]  by == b[2] - d[2]
        cx == c[1] - d[1]  cy == c[2] - d[2]
        al == Sq(ax) + Sq(ay)
        bl == Sq(bx) + Sq(by)
        cl == Sq(cx) + Sq(cy)
    IN  ax * (by * cl - bl * cy) - ay * (bx * cl - bl * cx) + al * (bx * cy - by * cx)

\* d lies strictly inside the circumcircle of the non-degenerate triangle a b c
InCircumcircle(a, b, c, d) ==
    IF Orient(a, b, c) > 0 THEN InCircleDet(a, b, c, d) > 0
                           ELSE InCircleDet(a, b, c, d) < 0

\* p lies strictly on the inner side of every edge of triangle a b c
StrictlyInside(a, b, c, p) ==
    LET s == IF Orient(a, b, c) > 0 THEN 1 ELSE -1
    IN  /\ s * Orient(a, b, p) > 0
        /\ s * Orient(b, c, p) > 0
        /\ s * Orient(c, a, p) > 0

\* some edge line of triangle t1 has all of t2 on its outer side
EdgeSeparates(t1, t2) ==
    LET s == IF Orient(t1[1], t1[2], t1[3]) > 0 THEN 1 ELSE -1
    IN  \E e \in {<<1, 2>>, <<2, 3>>, <<3, 1>>} :
          \A q \in 1..3 : s * Orient(t1[e[1]], t1[e[2]], t2[q]) <= 0

\* the interiors of two non-degenerate triangles (triples of positions) meet
TrianglesOverlap(t1, t2) == ~EdgeSeparates(t1, t2) /\ ~EdgeSeparates(t2, t1)

\* ------------------------------------------------- scipy.spatial.Delaunay

\* index i (0-based, as in the program) holds a position an earlier index holds
Duplicate(pts, i) == \E j \in 0..(i - 1) : pts[j + 1] = pts[i + 1]

\* the indices Qhull triangulates: one representative per distinct position
Vertices(pts) == {i \in 0..(Len(pts) - 1) : ~Duplicate(pts, i)}

\* sorted index triples whose triangle is non-degenerate and has no other
\* vertex strictly inside its circumcircle
EmptyCircleTriples(pts, V) ==
    {t \in V \X V \X V :
       /\ t[1] < t[2] /\ t[2] < t[3]
       /\ Orient(pts[t[1] + 1], pts[t[2] + 1], pts[t[3] + 1]) # 0
       /\ \A d \in V \ {t[1], t[2], t[3]} :
            ~InCircumcircle(pts[t[1] + 1], pts[t[2] + 1], pts[t[3] + 1], pts[d + 1])}

TriPos(pts, t) == <<pts[t[1] + 1], pts[t[2] + 1], pts[t[3] + 1]>>

\* a candidate with a further vertex exactly on its circumcircle; only such
\* candidates can overlap one another
CoCircular(pts, V, t) ==
    \E d \in V \ {t[1], t[2], t[3]} :
        InCircleDet(pts[t[1] + 1], pts[t[2] + 1], pts[t[3] + 1], pts[d + 1]) = 0

LexRank(n, t) == (t[1] * n + t[2]) * n + t[3]

\* co-circular vertices leave overlapping candidates: keep them in index order,
\* dropping a candidate that overlaps one already kept
RECURSIVE KeepDisjoint(_, _, _)
KeepDisjoint(pts, cands, kept) ==
    IF cands = {} THEN kept
    ELSE Let(CHOOSE c \in cands :
                 \A o \in cands : LexRank(Len(pts), c) <= LexRank(Len(pts), o),
         LAMBDA t :
         Let(cands \ {t}, LAMBDA rest :
         Let(IF \E k \in kept : TrianglesOverlap(TriPos(pts, t), TriPos(pts, k))
             THEN kept ELSE kept \cup {t},
         LAMBDA keep : KeepDisjoint(pts, rest, keep))))

\* Delaunay(points): raises is Qhull failing (QhullError) because the input
\* has no non-degenerate triangle (fewer than three distinct points, or all
\* points on one line); simplices is tri.simplices, each simplex listing its
\* vertices counter-clockwise, so not sorted in general
Delaunay(points) ==
    Let(points, LAMBDA pts :
    Let(Vertices(pts), LAMBDA V :
    Let(EmptyCircleTriples(pts, V), LAMBDA c :
    Let({t \in c : CoCircular(pts, V, t)}, LAMBDA ties :
    Let((c \ ties) \cup KeepDisjoint(pts, ties, {}), LAMBDA chosen :
        [raises |-> c = {},
         simplices |->
           {IF Orient(pts[t[1] + 1], pts[t[2] + 1], pts[t[3] + 1]) > 0
               THEN <<t[2], t[3], t[1]>> ELSE <<t[3], t[2], t[1]>> : t \in chosen}])))))

\* tuple(sorted(simplex)) and tuple(sorted([v0, v1]))
Min2(a, b) == IF a <= b THEN a ELSE b
Max2(a, b) == IF a >= b THEN a ELSE b
SortedTriple(s) ==
    LET lo == Min2(s[1], Min2(s[2], s[3]))
        hi == Max2(s[1], Max2(s[2], s[3]))
    IN  <<lo, s[1] + s[2] + s[3] - lo - hi, hi>>
SortedPair(v0, v1) == <<Min2(v0, v1), Max2(v0, v1)>>

SimplexKeys(simplices) == {SortedTriple(s) : s \in simplices}
\* the three edges (simplex[i], simplex[(i + 1) % 3]) of every simplex
LineKeys(simplices) ==
    {SortedPair(s[e[1]], s[e[2]]) : s \in simplices, e \in {<<1, 2>>, <<2, 3>>, <<3, 1>>}}

\* ------------------------------------------------------- bounds and samples

\* at most MaxEdits user interactions and MaxFrames timer ticks in a behaviour
MaxEdits == 2
MaxFrames == 4

\* alpha 1.0 and the pruning threshold 0.01, in alpha units
AlphaOne == 100
AlphaThreshold == 1

Seeds == {1, 2}
\* sampled widget values (all inside the ranges set in control.py / main.py)
CanvasSizes == {20, 30}
FpsSamples == {10, 50}
NumPointsSamples == {3, 4}
SpeedSamples == {0, 20}
SlowSpeedSamples == {5}
TransitionSpeedSamples == {5, 40}
HueSamples == {0, 120}

\* one "(x,y)" item of a line of the polygon text; ok = FALSE is an item that
\* float() rejects
Item(x, y) == [ok |-> TRUE, x |-> x, y |-> y]
BadItem == [ok |-> FALSE, x |-> 0, y |-> 0]
\* sampled contents of the polygon text field: a sequence of lines
NoPolygonText == << >>
SquareText == << <<Item(8, 8), Item(12, 8), Item(12, 12), Item(8, 12)>> >>
RejectedText == << <<Item(2, 2), Item(4, 4)>>, <<Item(1, 1), BadItem, Item(3, 3)>> >>
PolygonTexts == {NoPolygonText, SquareText, RejectedText}
\* the square with its first vertex entered twice: an edge of length zero
DoubledText == << <<Item(8, 8), Item(8, 8), Item(12, 8), Item(12, 12), Item(8, 12)>> >>
\* a rectangle that the sampled free points are drawn in and move into
WideText == << <<Item(4, 6), Item(16, 6), Item(16, 16), Item(4, 16)>> >>

\* ---- sampled np.random streams; digit d stands for rand() = d/10
\* positions of the free points: rand(num_points, 2)
PosDigits(seed, i) ==
    LET t == << <<5, 5>>, <<1, 7>>, <<8, 2>>, <<3, 1>>, <<6, 9>>, <<1, 1>>, <<9, 9>> >>
    IN  t[(((i - 1) + 3 * (seed - 1)) % Len(t)) + 1]
\* velocities of the free points: rand(num_points, 2) - 0.5, in tenths
VelDigits(seed, i) ==
    LET t == << <<8, 9>>, <<1, 2>>, <<5, 5>>, <<9, 5>>, <<5, 0>>, <<2, 9>>, <<9, 1>> >>
    IN  t[(((i - 1) + 2 * (seed - 1)) % Len(t)) + 1]
\* side_speed(): uniform(speed/4, speed/2) * choice([-1, 1]), in tenths of speed
SideDigits(seed, k) ==
    LET t == <<3, -4, -3, 4, 4, -3, 3, -4, -4, 3, 4>>
    IN  t[(((k - 1) + 5 * (seed - 1)) % Len(t)) + 1]
\* directions (cos, sin) of np.random.uniform(0, 2*pi), in fifths
AngleDigits(seed, i) ==
    LET t == << <<5, 0>>, <<3, 4>>, <<0, -5>>, <<-4, -3>>, <<-3, 4>> >>
    IN  t[(((i - 1) + (seed - 1)) % Len(t)) + 1]

\* ------------------------------------------------------------ sequence help

Zero2 == <<0, 0>>
Neg(v) == <<-v[1], -v[2]>>
Add(a, b) == <<a[1] + b[1], a[2] + b[2]>>
Sub(a, b) == <<a[1] - b[1], a[2] - b[2]>>
Dot(a, b) == a[1] * b[1] + a[2] * b[2]

\* integer quotient rounding toward zero, as float division followed by an
\* exact result on the sampled values
Quot(a, b) == IF a >= 0 THEN a \div b ELSE -((-a) \div b)

RECURSIVE ISqrtFrom(_, _)
ISqrtFrom(x, r) == IF (r + 1) * (r + 1) > x THEN r ELSE ISqrtFrom(x, r + 1)
\* np.linalg.norm on the sampled vectors (all have a whole-number norm)
Norm(v) == ISqrtFrom(Dot(v, v), 0)

RECURSIVE SumLen(_)
SumLen(polys) == IF polys = << >> THEN 0 ELSE Len(Head(polys)) + SumLen(Tail(polys))

RECURSIVE Flatten(_)
Flatten(polys) == IF polys = << >> THEN << >> ELSE Head(polys) \o Flatten(Tail(polys))

\* the sequence seq with every element evaluated (a numpy array holds values)
Array(seq) == SubSeq(seq, 1, Len(seq))

\* ------------------------------------------------------ modules/utils.py

\* initialize_points(num_points, width, height, fixed_corners, side_points,
\* speed): free points, then the 4 corners, then the 8 side points
utils_initialize_points(num_points, width, height, fixed_corners, side_points, speed, seed) ==
    LET freeP == [i \in 1..num_points |->
                    <<Quot(PosDigits(seed, i)[1] * width, 10),
                      Quot(PosDigits(seed, i)[2] * height, 10)>>]
        freeV == [i \in 1..num_points |->
                    <<Quot((VelDigits(seed, i)[1] - 5) * speed, 10),
                      Quot((VelDigits(seed, i)[2] - 5) * speed, 10)>>]
        cornerP == IF fixed_corners
                   THEN << <<0, 0>>, <<width, 0>>, <<0, height>>, <<width, height>> >>
                   ELSE << >>
        cornerV == IF fixed_corners THEN <<Zero2, Zero2, Zero2, Zero2>> ELSE << >>
        ss(k) == Quot(SideDigits(seed, k) * speed, 10)
        sideP == IF side_points
                 THEN << <<0, 0>>, <<width, 0>>, <<0, height>>, <<width, height>>,
                         <<0, 0>>, <<0, height>>, <<width, 0>>, <<width, height>> >>
                 ELSE << >>
        sideV == IF side_points
                 THEN << <<ss(1), 0>>, <<ss(2), 0>>, <<ss(3), 0>>, <<ss(4), 0>>,
                         <<0, ss(5)>>, <<0, ss(6)>>, <<0, ss(7)>>, <<0, ss(8)>> >>
                 ELSE << >>
    IN  [points |-> Array(freeP) \o cornerP \o sideP,
         velocities |-> Array(freeV) \o cornerV \o sideV]

\* a triangle colour: hue of the base colour and the drawn brightness value
\* (percent); value = max(0, min(1, 1 - range + rand() * range * 2))
FreshColor(base_color, brightness_range, draw) ==
    <<base_color,
      Max2(0, Min2(100, 100 - brightness_range + Quot(draw * brightness_range * 2, 10)))>>

\* initialize_triangle_colors(simplices, base_color, brightness_range,
\* triangle_colors): a NEW dict holding exactly the keys of simplices
initialize_triangle_colors(simplices, base_color, brightness_range, old_colors, draw) ==
    [k \in SimplexKeys(simplices) |->
        IF k \in DOMAIN old_colors THEN old_colors[k]
        ELSE FreshColor(base_color, brightness_range, draw)]

\* one edge (polygon[i], polygon[j]) of the ray-casting test; the float test
\*   x < (xj - xi) * (y - yi) / (yj - yi + 1e-10) + xi
\* is decided exactly: off the edge line by cross-multiplication, on the line
\* by the sign the 1e-10 term leaves
RayCrosses(point, pi, pj) ==
    LET x == point[1]  y == point[2]
        num == (pj[1] - pi[1]) * (y - pi[2])
        d == pj[2] - pi[2]
        m == x - pi[1]
    IN  /\ (pi[2] > y) # (pj[2] > y)
        /\ \/ m * d = num /\ num < 0
           \/ d > 0 /\ m * d < num
           \/ d < 0 /\ m * d > num

point_in_polygon(point, polygon) ==
    LET n == Len(polygon)
        prev(i) == IF i = 1 THEN n ELSE i - 1
    IN  Cardinality({i \in 1..n : RayCrosses(point, polygon[i], polygon[prev(i)])}) % 2 = 1

ccw(A, B, C) == (C[2] - A[2]) * (B[1] - A[1]) > (B[2] - A[2]) * (C[1] - A[1])
intersects(A, B, C, D) == ccw(A, C, D) # ccw(B, C, D) /\ ccw(A, B, C) # ccw(A, B, D)

\* a test that takes every edge as crossed
segment_intersects_always(p1, p2, polygon) == TRUE

segment_intersects_polygon(p1, p2, polygon) ==
    \E i \in 1..Len(polygon) :
        intersects(p1, p2, polygon[i], polygon[(i % Len(polygon)) + 1])

\* projection of point on the segment p1 p2 (closest_point_on_polygon, loop body)
ClosestOnSegment(point, p1, p2) ==
    LET v == Sub(p2, p1)
        w == Sub(point, p1)
        c1 == Dot(w, v)
        c2 == Dot(v, v)
    IN  IF c1 <= 0 THEN p1
        ELSE IF c2 <= c1 THEN p2
        ELSE <<p1[1] + Quot(c1 * v[1], c2), p1[2] + Quot(c1 * v[2], c2)>>

RECURSIVE ClosestFrom(_, _, _, _, _)
ClosestFrom(point, polygon, i, closest, min_d2) ==
    IF i > Len(polygon) THEN closest
    ELSE Let(ClosestOnSegment(point, polygon[i], polygon[(i % Len(polygon)) + 1]),
         LAMBDA cand :
         Let(Dot(Sub(point, cand), Sub(point, cand)), LAMBDA d2 :
             IF min_d2 < 0 \/ d2 < min_d2
             THEN ClosestFrom(point, polygon, i + 1, cand, d2)
             ELSE ClosestFrom(point, polygon, i + 1, closest, min_d2)))

\* closest_point_on_polygon returning the first vertex of the polygon
closest_point_first_vertex(point, polygon) == polygon[1]

\* min_dist starts at float('inf') (here -1); the first closest edge wins
closest_point_on_polygon(point, polygon) == ClosestFrom(point, polygon, 1, point, -1)

\* ------------------------------------------- modules/animation.py, helpers
\* The methods of AnimationManager are operators on a record s of its fields
\* (the variables below); ui is the record of widget values and get_parameters
\* results.  s.exc is set when an exception (QhullError) leaves the method:
\* the statements after the raising call are then not executed.

\* parse_polygons: a line is skipped when empty or when an item fails to
\* parse (ValueError); it yields a polygon only with 3 or more points
RECURSIVE parse_polygons(_)
parse_polygons(text) ==
    IF text = << >> THEN << >>
    ELSE LET line == Head(text)
             pts == Array([i \in 1..Len(line) |-> <<line[i].x, line[i].y>>])
         IN  IF Len(line) = 0 \/ (\E i \in 1..Len(line) : ~line[i].ok) \/ Len(line) < 3
             THEN parse_polygons(Tail(text))
             ELSE <<pts>> \o parse_polygons(Tail(text))

NumFixed(ui) == IF ui.fixed_corners THEN 4 ELSE 0
NumSide(ui) == IF ui.side_points THEN 8 ELSE 0

\* get_color(): the base colour of points and lines (hue slider sample)
get_color(ui) == ui.main_hue

\* delta = transition_speed * (1.0 / fps), transition_speed = slider / 10.0
Delta(ui) == (ui.transition_speed * AlphaOne) \div (10 * ui.fps)

\* animation.py 119-125 and 198-203: the body run for a free point found
\* inside a polygon.  free_points is a slice (a view) of self.points, so
\* free_points[i] read AFTER self.points[i] = closest_point is closest_point
SnapToPolygon(p, v, polygon) ==
    LET closest_point == closest_point_on_polygon(p, polygon)
        free_point_i == closest_point
        direction == Sub(closest_point, free_point_i)
    IN  [p |-> closest_point,
         v |-> IF Dot(direction, direction) > 0 THEN Neg(v) ELSE v]

RECURSIVE PushOut(_, _, _)
PushOut(p, v, polys) ==
    IF polys = << >> THEN [p |-> p, v |-> v]
    ELSE Let(IF point_in_polygon(p, Head(polys))
             THEN SnapToPolygon(p, v, Head(polys))
             ELSE [p |-> p, v |-> v],
         LAMBDA r : PushOut(r.p, r.v, Tail(polys)))

\* free_points_end without the polygon vertices taken off
FreePointsEndNoPolygons(s, ui) == Len(s.points) - NumFixed(ui) - NumSide(ui)

\* free_points_end = len(self.points) - num_fixed - num_side - num_polygon
FreePointsEnd(s, ui) == Len(s.points) - NumFixed(ui) - NumSide(ui) - SumLen(s.polygons)

_push_points_out_of_polygons(s, ui) ==
    LET free_points_end == FreePointsEnd(s, ui)
    IN  IF free_points_end <= 0 THEN s
        ELSE Let(Array([i \in 1..free_points_end |->
                          PushOut(s.points[i], s.velocities[i], s.polygons)]),
             LAMBDA r :
             [s EXCEPT
                !.points = Array([i \in 1..Len(s.points) |->
                              IF i <= free_points_end THEN r[i].p ELSE s.points[i]]),
                !.velocities = Array([i \in 1..Len(s.velocities) |->
                              IF i <= free_points_end THEN r[i].v ELSE s.velocities[i]]),
                !.pass0 = [points |-> s.points, velocities |-> s.velocities]])

\* the float nan, a value that no coordinate or velocity component takes
NaN == 1000000

\* v - 2 * dot(v, normal) * normal with normal = [p2y - p1y, p1x - p2x] / |.|;
\* for p1 = p2 the norm is 0.0 and normal / norm is [nan, nan]
Reflect(v, p1, p2) ==
    LET normal == <<p2[2] - p1[2], p1[1] - p2[1]>>
        nn == Dot(normal, normal)
        k == 2 * Dot(v, normal)
    IN  IF nn = 0 THEN <<NaN, NaN>>
        ELSE <<v[1] - Quot(k * normal[1], nn), v[2] - Quot(k * normal[2], nn)>>

\* animation.py 206-214: the edges of one polygon, in order, for a point
\* that is not inside it
RECURSIVE ReflectOnEdges(_, _, _, _)
ReflectOnEdges(p, v, polygon, j) ==
    IF j > Len(polygon) THEN v
    ELSE LET p1 == polygon[j]
             p2 == polygon[(j % Len(polygon)) + 1]
         IN  Let(Add(p, v), LAMBDA next_pos :
             Let(IF segment_intersects_polygon(p, next_pos, <<p1, p2>>)
                 THEN Reflect(v, p1, p2) ELSE v,
             LAMBDA velocity : ReflectOnEdges(p, velocity, polygon, j + 1)))

\* animation.py 195-214 for one free point
RECURSIVE CollidePolygons(_, _, _)
CollidePolygons(p, v, polys) ==
    IF polys = << >> THEN [p |-> p, v |-> v]
    ELSE Let(IF point_in_polygon(p, Head(polys))
             THEN SnapToPolygon(p, v, Head(polys))
             ELSE [p |-> p, v |-> ReflectOnEdges(p, v, Head(polys), 1)],
         LAMBDA r : CollidePolygons(r.p, r.v, Tail(polys)))

\* BounceFree negating both components when either mask holds
BounceFreeBoth(p, v, width, height) ==
    IF p[1] < 0 \/ p[1] > width \/ p[2] < 0 \/ p[2] > height THEN Neg(v) ELSE v

\* animation.py 189-192 for one free point: the canvas masks
BounceFree(p, v, width, height) ==
    <<IF p[1] < 0 \/ p[1] > width THEN -v[1] ELSE v[1],
      IF p[2] < 0 \/ p[2] > height THEN -v[2] ELSE v[2]>>

\* animation.py 217-224 for side point number k (0..7) of the side block
BounceSide(k, p, v, width, height) ==
    IF k <= 3
    THEN <<IF p[1] < 0 \/ p[1] > width THEN -v[1] ELSE v[1], v[2]>>
    ELSE <<v[1], IF p[2] < 0 \/ p[2] > height THEN -v[2] ELSE v[2]>>

\* the collision pass run on the positions the points had before they were
\* moved, the move made after it
_handle_boundary_collisions_first(s, width, height, num_fixed, num_side) ==
    LET n == Len(s.points)
        num_polygon == SumLen(s.polygons)
        free_points_end == n - num_fixed - num_side - num_polygon
        side_idx == n - num_side - num_polygon
        before == Array([i \in 1..n |-> Sub(s.points[i], s.velocities[i])])
    IN  IF n = 0 \/ free_points_end <= 0 THEN s
        ELSE Let(Array([i \in 1..free_points_end |->
                    Let(BounceFree(before[i], s.velocities[i], width, height),
                        LAMBDA v : CollidePolygons(before[i], v, s.polygons))]),
             LAMBDA r :
             Let(Array([i \in 1..n |->
                    IF i <= free_points_end THEN r[i].v
                    ELSE IF num_side > 0 /\ i - 1 >= side_idx /\ i - 1 <= side_idx + 7
                    THEN BounceSide(i - 1 - side_idx, before[i], s.velocities[i],
                                    width, height)
                    ELSE s.velocities[i]]),
             LAMBDA vs :
             [s EXCEPT
                !.points = Array([i \in 1..n |->
                              Add(IF i <= free_points_end THEN r[i].p ELSE before[i],
                                  vs[i])]),
                !.velocities = vs,
                !.pass0 = [points |-> before, velocities |-> s.velocities]]))

\* animation.py 177-224
_handle_boundary_collisions(s, width, height, num_fixed, num_side) ==
    LET n == Len(s.points)
        num_polygon == SumLen(s.polygons)
        free_points_end == n - num_fixed - num_side - num_polygon
        side_idx == n - num_side - num_polygon
    IN  IF n = 0 \/ free_points_end <= 0 THEN s
        ELSE Let(Array([i \in 1..free_points_end |->
                    Let(BounceFree(s.points[i], s.velocities[i], width, height),
                        LAMBDA v : CollidePolygons(s.points[i], v, s.polygons))]),
             LAMBDA r :
             [s EXCEPT
                !.points = Array([i \in 1..n |->
                              IF i <= free_points_end THEN r[i].p ELSE s.points[i]]),
                !.velocities = Array([i \in 1..n |->
                    IF i <= free_points_end THEN r[i].v
                    ELSE IF num_side > 0 /\ i - 1 >= side_idx /\ i - 1 <= side_idx + 7
                    THEN BounceSide(i - 1 - side_idx, s.points[i], s.velocities[i],
                                    width, height)
                    ELSE s.velocities[i]]),
                !.pass0 = [points |-> s.points, velocities |-> s.velocities]])

\* a frame that moves nothing while a render toggle is off
_update_points_if_rendering(s) ==
    IF s.triangles_alpha > 0 /\ s.lines_alpha > 0
    THEN [s EXCEPT !.points = Array([i \in 1..Len(s.points) |->
                                       Add(s.points[i], s.velocities[i])])]
    ELSE s

\* _update_points: self.points += self.velocities
_update_points(s) ==
    [s EXCEPT !.points = Array([i \in 1..Len(s.points) |->
                                  Add(s.points[i], s.velocities[i])])]

\* ------------------------------------------- modules/animation.py, methods

\* self.<map>[key] = 1.0 for every key of keys that is not yet in the map
AddMissingAt(alphas, keys, a) ==
    [k \in (DOMAIN alphas) \cup keys |-> IF k \in DOMAIN alphas THEN alphas[k] ELSE a]

\* FadeStep without the clamp to [0.0, 1.0]
FadeStepUnclamped(alphas, present, delta) ==
    LET a0 == AddMissingAt(alphas, present, 0)
        stepped(k) == IF k \in present THEN a0[k] + delta ELSE a0[k] - delta
        kept == {k \in DOMAIN a0 : k \in present \/ stepped(k) > AlphaThreshold}
    IN  [k \in kept |-> stepped(k)]

\* FadeStep showing a key of the triangulation at once instead of fading it in
FadeStepSnapIn(alphas, present, delta) ==
    LET a0 == AddMissingAt(alphas, present, 0)
        stepped(k) == IF k \in present THEN AlphaOne ELSE Max2(a0[k] - delta, 0)
        kept == {k \in DOMAIN a0 : k \in present \/ stepped(k) > AlphaThreshold}
    IN  [k \in kept |-> stepped(k)]

\* FadeStep dropping a key as soon as it leaves the triangulation
FadeStepDropAbsent(alphas, present, delta) ==
    LET a0 == AddMissingAt(alphas, present, 0)
    IN  [k \in present |-> Min2(a0[k] + delta, AlphaOne)]

\* FadeStep restarting from 0.0 a key that is not fully shown
FadeStepRestart(alphas, present, delta) ==
    LET a0 == AddMissingAt(alphas, present, 0)
        stepped(k) == IF k \in present
                      THEN IF a0[k] < AlphaOne THEN Min2(delta, AlphaOne) ELSE AlphaOne
                      ELSE Max2(a0[k] - delta, 0)
        kept == {k \in DOMAIN a0 : k \in present \/ stepped(k) > AlphaThreshold}
    IN  [k \in kept |-> stepped(k)]

\* FadeStep stopping the fade-in just below 1.0
FadeStepShort(alphas, present, delta) ==
    LET a0 == AddMissingAt(alphas, present, 0)
        stepped(k) == IF k \in present THEN Min2(a0[k] + delta, AlphaOne - 1)
                      ELSE Max2(a0[k] - delta, 0)
        kept == {k \in DOMAIN a0 : k \in present \/ stepped(k) > AlphaThreshold}
    IN  [k \in kept |-> stepped(k)]

\* FadeStep pruning every key whose alpha is <= 0.01, present or not
FadeStepPruneAll(alphas, present, delta) ==
    LET a0 == AddMissingAt(alphas, present, 0)
        stepped(k) == IF k \in present THEN Min2(a0[k] + delta, AlphaOne)
                      ELSE Max2(a0[k] - delta, 0)
        kept == {k \in DOMAIN a0 : stepped(k) > AlphaThreshold}
    IN  [k \in kept |-> stepped(k)]

\* animation.py 255-264 and 269-279: new keys enter at 0.0, present keys grow
\* by delta up to 1.0, absent keys shrink by delta down to 0.0 and are deleted
\* when the result is <= 0.01
FadeStep(alphas, present, delta) ==
    LET a0 == AddMissingAt(alphas, present, 0)
        stepped(k) == IF k \in present THEN Min2(a0[k] + delta, AlphaOne)
                      ELSE Max2(a0[k] - delta, 0)
        kept == {k \in DOMAIN a0 : k \in present \/ stepped(k) > AlphaThreshold}
    IN  [k \in kept |-> stepped(k)]

\* the number of simplices that hold the edge `key`
References(simplices, key) ==
    Cardinality({s \in simplices : {key[1], key[2]} \subseteq {s[1], s[2], s[3]}})

\* the line fade stepping an edge once for every simplex that holds it
LineFadeStepPerSimplex(line_alphas, new_simplices, new_line_keys, delta) ==
    LET a0 == AddMissingAt(line_alphas, new_line_keys, 0)
        stepped(k) == IF k \in new_line_keys
                      THEN Min2(a0[k] + References(new_simplices, k) * delta, AlphaOne)
                      ELSE Max2(a0[k] - delta, 0)
        kept == {k \in DOMAIN a0 : k \in new_line_keys \/ stepped(k) > AlphaThreshold}
    IN  [k \in kept |-> stepped(k)]

\* animation.py 269-279 on the edges of new_simplices: new_line_keys is a
\* set (242-247), so an edge is in it once however many simplices hold it
LineFadeStep(line_alphas, new_simplices, new_line_keys, delta) ==
    FadeStep(line_alphas, new_line_keys, delta)

\* a dict without the entries whose key is not in keys
Restrict(f, keys) == [k \in (DOMAIN f) \cap keys |-> f[k]]

update_triangulation_and_colors(s, ui, draw) ==
    IF Len(s.points) = 0 THEN s
    ELSE Let(Delaunay(s.points), LAMBDA tri :
    IF tri.raises THEN [s EXCEPT !.exc = TRUE]
    ELSE Let(tri.simplices, LAMBDA simplices :
         Let([s EXCEPT !.simplices = simplices], LAMBDA s1 :
         Let(IF s1.triangles_alpha > 0
             THEN [s1 EXCEPT
                     !.triangle_colors =
                         initialize_triangle_colors(simplices, get_color(ui),
                                                    ui.brightness_range, << >>, draw),
                     !.triangle_alphas =
                         AddMissingAt(s1.triangle_alphas, SimplexKeys(simplices), AlphaOne)]
             ELSE s1,
         LAMBDA s2 :
             IF s2.lines_alpha > 0
             THEN [s2 EXCEPT !.line_alphas =
                               AddMissingAt(s2.line_alphas, LineKeys(simplices), AlphaOne)]
             ELSE s2))))

\* the geometry inputs read by initialize_points
Geometry(ui) == <<ui.num_points, ui.width, ui.height, ui.fixed_corners,
                  ui.side_points, ui.polygons_text>>

initialize_points(s, ui, seed, draw) ==
    Let(parse_polygons(ui.polygons_text), LAMBDA polygons :
    Let(utils_initialize_points(ui.num_points, ui.width, ui.height,
                                ui.fixed_corners, ui.side_points, ui.speed, seed),
    LAMBDA pv :
    Let(Flatten(polygons), LAMBDA polygon_points :
    Let([s EXCEPT
           !.polygons = polygons,
           !.points = pv.points \o polygon_points,
           !.velocities = pv.velocities \o Array([i \in 1..Len(polygon_points) |-> Zero2]),
           !.init_geom = Geometry(ui),
           !.reinit = TRUE],
    LAMBDA s1 :
    Let(_push_points_out_of_polygons(s1, ui), LAMBDA s2 :
        update_triangulation_and_colors(s2, ui, draw))))))

\* update_frame(for_export = False): the slot of the frame timer
\* animation.py 230-290: update_frame past its static-frame return
update_frame_body(s, ui, draw) ==
         Let(_update_points(s), LAMBDA moved :
         Let(_handle_boundary_collisions(moved, ui.width, ui.height,
                                         NumFixed(ui), NumSide(ui)),
         LAMBDA s1 :
         Let(Delaunay(s1.points), LAMBDA tri :
         IF tri.raises THEN [s1 EXCEPT !.exc = TRUE]
         ELSE
         Let(tri.simplices, LAMBDA new_simplices :
         Let(SimplexKeys(new_simplices), LAMBDA new_simplex_keys :
         Let(LineKeys(new_simplices), LAMBDA new_line_keys :
         Let(Delta(ui), LAMBDA delta :
         Let([s1 EXCEPT !.simplices = new_simplices], LAMBDA s2 :
         Let(initialize_triangle_colors(new_simplices, get_color(ui),
                                        ui.brightness_range, s2.triangle_colors, draw),
         LAMBDA colors :
         Let(FadeStep(s2.triangle_alphas, new_simplex_keys, delta), LAMBDA alphas :
         Let(((DOMAIN s2.triangle_alphas) \cup new_simplex_keys) \ DOMAIN alphas,
         LAMBDA deleted :
         Let(IF s2.triangles_alpha > 0
             THEN [s2 EXCEPT
                     !.triangle_colors = Restrict(colors, (DOMAIN colors) \ deleted),
                     !.triangle_alphas = alphas]
             ELSE s2,
         LAMBDA s3 :
             IF s3.lines_alpha > 0
             THEN [s3 EXCEPT !.line_alphas = LineFadeStep(s3.line_alphas, new_simplices,
                                                          new_line_keys, delta)]
             ELSE s3))))))))))))

\* a frame step without the static-frame return
update_frame_always(s, ui, draw) == update_frame_body(s, ui, draw)

\* animation.py 226-290; 228-229: `if self.is_static_frame and not
\* for_export: return`
update_frame(s, ui, draw) ==
    IF s.is_static_frame THEN s ELSE update_frame_body(s, ui, draw)

\* draw_frame: the canvas is given every field it paints
draw_frame(s) ==
    [s EXCEPT !.drawn = [lines_alpha |-> s.lines_alpha,
                         triangles_alpha |-> s.triangles_alpha,
                         triangle_alphas |-> s.triangle_alphas,
                         line_alphas |-> s.line_alphas,
                         triangle_colors |-> s.triangle_colors,
                         simplices |-> s.simplices,
                         points |-> s.points,
                         polygons |-> s.polygons]]

LinesAlphaOf(ui) == IF ui.show_lines THEN 1 ELSE 0
TrianglesAlphaOf(ui) == IF ui.fill_triangles THEN 1 ELSE 0

generate_single_frame(s, ui, seed, draw) ==
    Let(initialize_points(s, ui, seed, draw), LAMBDA s1 :
        IF s1.exc THEN s1
        ELSE Let(update_triangulation_and_colors(
                     [s1 EXCEPT !.is_static_frame = TRUE,
                                !.lines_alpha = LinesAlphaOf(ui),
                                !.triangles_alpha = TrianglesAlphaOf(ui)],
                     ui, (draw + 5) % 10),
             LAMBDA s2 : IF s2.exc THEN s2 ELSE draw_frame(s2)))

ExpectedLen(s, ui) == ui.num_points + NumFixed(ui) + NumSide(ui) + SumLen(s.polygons)

start_animation(s, ui, seed, draw) ==
    Let([s EXCEPT !.is_static_frame = FALSE], LAMBDA s0 :
    Let(IF Len(s0.points) = 0 \/ Len(s0.points) # ExpectedLen(s0, ui)
        THEN initialize_points(s0, ui, seed, draw)
        ELSE s0,
    LAMBDA s1 :
        IF s1.exc THEN s1
        ELSE Let(update_triangulation_and_colors(
                     [s1 EXCEPT !.lines_alpha = LinesAlphaOf(ui),
                                !.triangles_alpha = TrianglesAlphaOf(ui)],
                     ui, (draw + 5) % 10),
             LAMBDA s2 :
                 IF s2.exc THEN s2 ELSE [s2 EXCEPT !.timer_active = TRUE])))

\* a stop that also starts the fades over
stop_animation_reset(s) ==
    draw_frame([s EXCEPT !.timer_active = FALSE, !.is_static_frame = TRUE,
                         !.triangle_alphas = << >>, !.line_alphas = << >>])

\* animation.py 333-338: timer.stop(), is_static_frame = True, draw_frame()
stop_animation(s) ==
    draw_frame([s EXCEPT !.timer_active = FALSE, !.is_static_frame = TRUE])

update_points_and_frame(s, ui, seed, draw) ==
    Let(initialize_points(s, ui, seed, draw), LAMBDA s1 :
        IF s1.exc THEN s1
        ELSE IF s1.is_static_frame THEN draw_frame(s1)
        ELSE update_triangulation_and_colors(s1, ui, (draw + 5) % 10))

\* a refresh that draws the point field again
update_render_parameters_reinit(s, ui, seed, draw) ==
    initialize_points(s, ui, seed, draw)

\* animation.py 352-390
update_render_parameters(s, ui, seed, draw) ==
    IF Len(s.points) = 0 THEN initialize_points(s, ui, seed, draw)
    ELSE Let(Delaunay(s.points), LAMBDA tri :
    IF tri.raises THEN [s EXCEPT !.exc = TRUE]
    ELSE Let(tri.simplices, LAMBDA simplices :
         Let(SimplexKeys(simplices), LAMBDA new_simplex_keys :
         Let([s EXCEPT !.simplices = simplices], LAMBDA s1 :
         Let(initialize_triangle_colors(simplices, get_color(ui), ui.brightness_range,
                                        s1.triangle_colors, draw),
         LAMBDA colors :
         Let(IF s1.triangles_alpha > 0
             THEN [s1 EXCEPT
                     !.triangle_colors = colors,
                     !.triangle_alphas =
                         Restrict(AddMissingAt(s1.triangle_alphas, new_simplex_keys,
                                               AlphaOne),
                                  new_simplex_keys)]
             ELSE s1,
         LAMBDA s2 :
             IF s2.lines_alpha > 0
             THEN [s2 EXCEPT !.line_alphas =
                               AddMissingAt(s2.line_alphas, LineKeys(simplices), AlphaOne)]
             ELSE s2))))))

update_lines_alpha(s, ui, seed, draw) ==
    update_render_parameters([s EXCEPT !.lines_alpha = LinesAlphaOf(ui)], ui, seed, draw)

update_triangles_alpha(s, ui, seed, draw) ==
    update_render_parameters([s EXCEPT !.triangles_alpha = TrianglesAlphaOf(ui)], ui, seed, draw)

Sign(x) == IF x > 0 THEN 1 ELSE IF x < 0 THEN -1 ELSE 0
Abs(x) == IF x < 0 THEN -x ELSE x

\* animation.py 430-431 / 434-436 for the moving component c of a side point:
\*   current_speed = abs(c) or side_speed()
\*   c = np.sign(c) * speed / 2 if current_speed != 0 else side_speed()
SideComponent(c, speed, draw1, draw2) ==
    LET current_speed == IF Abs(c) # 0 THEN Abs(c) ELSE draw1
    IN  IF current_speed # 0 THEN Quot(Sign(c) * speed, 2) ELSE draw2

update_velocities(s, ui, seed, draw) ==
    IF Len(s.points) = 0 THEN initialize_points(s, ui, seed, draw)
    ELSE
    LET speed == ui.speed
        num_fixed == NumFixed(ui)
        num_side == NumSide(ui)
        num_polygon == SumLen(s.polygons)
        num_total == Len(s.points)
        free_points_end == FreePointsEnd(s, ui)
        side_idx == num_total - num_side - num_polygon
        \* animation.py 408-423
        free(i, norms) ==
            IF \E j \in 1..free_points_end : norms[j] > 0
            THEN IF norms[i] > 0
                 THEN <<Quot(s.velocities[i][1] * speed, norms[i]),
                        Quot(s.velocities[i][2] * speed, norms[i])>>
                 ELSE Zero2
            ELSE <<Quot(speed * AngleDigits(seed, i)[1], 5),
                   Quot(speed * AngleDigits(seed, i)[2], 5)>>
        ss(k) == Quot(SideDigits(seed, k) * speed, 10)
        \* animation.py 426-436
        side(i) == LET k == i - 1 - side_idx
                   IN  IF k <= 3
                       THEN <<SideComponent(s.velocities[i][1], speed, ss(k + 1), ss(k + 2)), 0>>
                       ELSE <<0, SideComponent(s.velocities[i][2], speed, ss(k + 1), ss(k + 2))>>
        \* animation.py 439-440: the slice [free_points_end:]
        start == IF free_points_end >= 0 THEN free_points_end
                 ELSE Max2(0, num_total + free_points_end)
    IN  Let(Array([i \in 1..num_total |-> Norm(s.velocities[i])]), LAMBDA norms :
        Let(Array([i \in 1..num_total |->
                 IF free_points_end > 0 /\ i <= free_points_end THEN free(i, norms)
                 ELSE IF num_side > 0 /\ i - 1 >= side_idx /\ i - 1 <= side_idx + 7 THEN side(i)
                 ELSE s.velocities[i]]),
        LAMBDA v1 :
            [s EXCEPT !.velocities = Array([i \in 1..num_total |->
                 IF (num_fixed > 0 \/ num_polygon > 0) /\ i - 1 >= start
                 THEN Zero2 ELSE v1[i]])]))

\* --------------------------------------------- modules/canvas.py, paintGL

\* canvas.py 122-134: the triangles painted from the canvas fields c, each
\* with the alpha given to glColor4f
PaintedTriangles(c) ==
    IF c.triangles_alpha > 0
    THEN [k \in {x \in SimplexKeys(c.simplices) :
                    x \in DOMAIN c.triangle_colors /\ x \in DOMAIN c.triangle_alphas} |->
            c.triangle_alphas[k] * c.triangles_alpha]
    ELSE << >>

\* canvas.py 137-150: the edges painted from the canvas fields c
PaintedLines(c) ==
    IF c.lines_alpha > 0
    THEN [k \in {x \in LineKeys(c.simplices) : x \in DOMAIN c.line_alphas} |->
            c.line_alphas[k] * c.lines_alpha]
    ELSE << >>

\* --------------------------------------------- modules/export.py, methods

\* sampled contents of the duration field, in tenths of a second (inside
\* the range 0.1 .. 60 that _validate_duration accepts); fps * duration is
\* exact in floating point for the sampled values
DurationSamples == {3, 4}
\* the duration field's initial text: 5 seconds
ConfigDuration == 50

\* the number of required parameters of modules.utils.get_color(hue,
\* saturation, value), the function that export.py imports
GetColorParameters == 3

\* ExportManager.get_color and get_background_color: both call
\* get_color(<hue slider>, <brightness slider>), two arguments; a call with
\* the wrong number of arguments raises TypeError
export_get_color == [raises |-> 2 # GetColorParameters]
export_get_background_color == [raises |-> 2 # GetColorParameters]

\* ExportManager.initialize_triangle_colors(simplices, base_hue): base_hue is
\* the float color_slider.value() / 360.0, and modules.utils.
\* initialize_triangle_colors starts with colorsys.rgb_to_hsv(*base_color):
\* unpacking a float raises TypeError before any colour is assigned
export_initialize_triangle_colors(e, simplices) == [e EXCEPT !.raised = "TypeError"]

\* int(fps * duration), duration in tenths
TotalFrames(fps, duration) == (fps * duration) \div 10

\* the ExportManager fields as one record; raised names the exception that
\* left the method, total_frames is the value _initialize_animation returned,
\* shot is what the last _render_frame call painted
NoShot == << >>
ExportFields(points, velocities, triangle_colors) ==
    [points |-> points, velocities |-> velocities, triangle_colors |-> triangle_colors,
     raised |-> "none", total_frames |-> 0, shot |-> NoShot]

\* export.py 256-265
export_initialize_animation(e, ui, duration, seed) ==
    Let(utils_initialize_points(ui.num_points, ui.width, ui.height,
                                ui.fixed_corners, ui.side_points, ui.speed, seed),
    LAMBDA pv :
    Let([e EXCEPT !.points = pv.points, !.velocities = pv.velocities,
                  !.triangle_colors = << >>],
    LAMBDA e1 :
    Let(Delaunay(e1.points), LAMBDA tri :
        IF tri.raises THEN [e1 EXCEPT !.raised = "QhullError"]
        ELSE Let(IF ui.fill_triangles
                 THEN export_initialize_triangle_colors(e1, tri.simplices)
                 ELSE e1,
             LAMBDA e2 :
                 IF e2.raised # "none" THEN e2
                 ELSE [e2 EXCEPT !.total_frames = TotalFrames(ui.fps, duration)]))))

\* export.py 83-85
export_update_points(e) ==
    [e EXCEPT !.points = Array([i \in 1..Len(e.points) |->
                                  Add(e.points[i], e.velocities[i])])]

\* export.py 87-107: the free points are the slice [:-num_fixed - num_side],
\* which is empty when num_fixed + num_side = 0; polygons are not looked at
export_handle_boundary_collisions(e, width, height, num_fixed, num_side) ==
    LET n == Len(e.points)
        k == num_fixed + num_side
        free_end == IF k = 0 THEN 0 ELSE Max2(n - k, 0)
        side_idx == n - num_side
    IN  [e EXCEPT !.velocities = Array([i \in 1..n |->
            IF i <= free_end
            THEN BounceFree(e.points[i], e.velocities[i], width, height)
            ELSE IF num_side > 0 /\ i - 1 >= side_idx
            THEN BounceSide(i - 1 - side_idx, e.points[i], e.velocities[i],
                            width, height)
            ELSE e.velocities[i]])]

\* export.py 135-146: Delaunay, the triangle colours if filling, then
\* _setup_canvas (get_background_color), get_color and the drawing calls,
\* which paint every triangle and line opaque
export_render_frame(e, ui) ==
    Let(Delaunay(e.points), LAMBDA tri :
        IF tri.raises THEN [e EXCEPT !.raised = "QhullError"]
        ELSE Let(IF ui.fill_triangles
                 THEN export_initialize_triangle_colors(e, tri.simplices)
                 ELSE e,
             LAMBDA e1 :
                 IF e1.raised # "none" THEN e1
                 ELSE IF export_get_background_color.raises \/ export_get_color.raises
                 THEN [e1 EXCEPT !.raised = "TypeError"]
                 ELSE [e1 EXCEPT !.shot =
                         [points |-> e1.points, simplices |-> tri.simplices,
                          triangle_colors |-> e1.triangle_colors,
                          lines |-> ui.show_lines, fill |-> ui.fill_triangles]]))

\* export.py 267-272
export_update_frame(e, ui) ==
    Let(export_update_points([e EXCEPT !.shot = NoShot]), LAMBDA e1 :
    Let(export_handle_boundary_collisions(e1, ui.width, ui.height,
                                          NumFixed(ui), NumSide(ui)),
    LAMBDA e2 : export_render_frame(e2, ui)))

\* ------------------------------------- modules/config_manager.py, methods

\* sampled texts of a stored value and sampled fallbacks; every value is
\* written as Python prints it, so an int, a float, a bool and a str each
\* have their own texts
ConfigTexts == {"5", "2.5", "1", "abc"}
ConfigSections == {"Window", "Missing"}
ConfigKeys == {"min_width", "missing"}
IntFallbacks == {"400"}
FloatFallbacks == {"0.1"}
BoolFallbacks == {"True", "False"}
StringFallbacks == {"1080"}

\* a config file: exists = os.path.exists(config_file), sections = what
\* ConfigParser.read() found (section -> key -> text)
NoFile == [exists |-> FALSE, sections |-> << >>]
FileWith(text) ==
    [exists |-> TRUE, sections |-> [s \in {"Window"} |-> [k \in {"min_width"} |-> text]]]
ConfigFiles == {NoFile} \cup {FileWith(t) : t \in ConfigTexts}

\* a value, or the exception that the expression raised
Value(v) == [raised |-> "none", value |-> v]
Raised(e) == [raised |-> e, value |-> ""]

\* int(text), float(text)
int(text) ==
    IF text \in {"5", "1"} THEN Value(text) ELSE Raised("ValueError")
float(text) ==
    CASE text = "5" -> Value("5.0")
      [] text = "1" -> Value("1.0")
      [] text = "2.5" -> Value("2.5")
      [] OTHER -> Raised("ValueError")

\* self.config[section][key]: SectionProxy.__getitem__ raises KeyError for a
\* key that the section does not have
SectionItem(config, section, key) ==
    IF key \in DOMAIN config.sections[section]
    THEN Value(config.sections[section][key]) ELSE Raised("KeyError")

\* self.config.getboolean(section, key): RawConfigParser.get raises
\* NoOptionError for a key that the section does not have, and the
\* conversion raises ValueError for a text that is not a boolean word
getboolean(config, section, key) ==
    IF key \notin DOMAIN config.sections[section] THEN Raised("NoOptionError")
    ELSE LET text == config.sections[section][key]
         IN  IF text = "1" THEN Value("True") ELSE Raised("ValueError")

\* `if self.config and section in self.config`
HasSection(config, section) == config.exists /\ section \in DOMAIN config.sections

\* try: ... except (KeyError, ValueError): return fallback
ExceptKeyOrValueError(r, fallback) ==
    IF r.raised \in {"KeyError", "ValueError"} THEN Value(fallback) ELSE r

\* config_manager.py 25-43
get_int(config, section, key, fallback) ==
    ExceptKeyOrValueError(
        IF HasSection(config, section)
        THEN LET item == SectionItem(config, section, key)
             IN  IF item.raised # "none" THEN item ELSE int(item.value)
        ELSE Value(fallback),
        fallback)

\* config_manager.py 45-63
get_float(config, section, key, fallback) ==
    ExceptKeyOrValueError(
        IF HasSection(config, section)
        THEN LET item == SectionItem(config, section, key)
             IN  IF item.raised # "none" THEN item ELSE float(item.value)
        ELSE Value(fallback),
        fallback)

\* config_manager.py 65-83
get_bool(config, section, key, fallback) ==
    ExceptKeyOrValueError(
        IF HasSection(config, section)
        THEN getboolean(config, section, key)
        ELSE Value(fallback),
        fallback)

\* config_manager.py 85-103
get_string(config, section, key, fallback) ==
    ExceptKeyOrValueError(
        IF HasSection(config, section)
        THEN SectionItem(config, section, key)
        ELSE Value(fallback),
        fallback)

\* ------------------------------------------------------------------- state

VARIABLES
    points,            \* self.points: sequence of <<x, y>>
    velocities,        \* self.velocities
    polygons,          \* self.polygons: sequence of vertex sequences
    simplices,         \* self.simplices: set of index triples
    triangle_colors,   \* self.triangle_colors: simplex key -> colour
    triangle_alphas,   \* self.triangle_alphas: simplex key -> alpha units
    line_alphas,       \* self.line_alphas: edge key -> alpha units
    lines_alpha,       \* self.lines_alpha: 0 or 1
    triangles_alpha,   \* self.triangles_alpha: 0 or 1
    is_static_frame,   \* self.is_static_frame
    timer_active,      \* self.timer.isActive()
    is_animation_running, \* VideoGeneratorApp.is_animation_running
    ui,                \* widget values
    last,              \* history: what the last step did
    edits,             \* history: number of user interactions so far
    frames,            \* history: number of timer ticks so far
    export,            \* the ExportManager, its running export_animation calls
                       \* and the duration field
    config             \* the ConfigManager and the last getter call made on it

vars == <<points, velocities, polygons, simplices, triangle_colors, triangle_alphas,
          line_alphas, lines_alpha, triangles_alpha, is_static_frame, timer_active,
          is_animation_running, ui, last, edits, frames, export, config>>

\* no push-out or collision pass ran; draw_frame was not called
NoPass == [points |-> << >>, velocities |-> << >>]
NoDraw == << >>

\* the points and velocities of a record
PV(r) == [points |-> r.points, velocities |-> r.velocities]

\* at most MaxExports clicks on the export button in a behaviour, of which
\* at most MaxNesting are running at a time
MaxExports == 2
MaxNesting == 2

\* no ConfigManager constructed yet
NoCall == [getter |-> "none", section |-> "", key |-> "", fallback |-> "", result |-> Value("")]
NoConfig == [loaded |-> FALSE, file |-> NoFile, call |-> NoCall]

\* ExportManager.__init__ (points and velocities None, triangle_colors {}),
\* no export_animation call running or finished, the duration field holding
\* its initial text; twin, shot and raised belong to the paired frames
NoDone == [outcome |-> "none", before |-> PV(NoPass), after |-> PV(NoPass),
           fps |-> 0, duration |-> 0, total_frames |-> 0, steps |-> 0, captured |-> 0]
NoExport ==
    [points |-> << >>, velocities |-> << >>, triangle_colors |-> << >>,
     duration |-> ConfigDuration, stack |-> << >>, runs |-> 0, done |-> NoDone,
     twin |-> FALSE, shot |-> NoShot, raised |-> "none"]

ExportSelf == ExportFields(export.points, export.velocities, export.triangle_colors)

\* the AnimationManager fields as one record, and back
Self ==
    [points |-> points, velocities |-> velocities, polygons |-> polygons,
     simplices |-> simplices, triangle_colors |-> triangle_colors,
     triangle_alphas |-> triangle_alphas, line_alphas |-> line_alphas,
     lines_alpha |-> lines_alpha, triangles_alpha |-> triangles_alpha,
     is_static_frame |-> is_static_frame, timer_active |-> timer_active,
     exc |-> FALSE, reinit |-> FALSE, init_geom |-> last.init_geom,
     pass0 |-> NoPass, drawn |-> NoDraw]

Commit(r) ==
    /\ points' = r.points
    /\ velocities' = r.velocities
    /\ polygons' = r.polygons
    /\ simplices' = r.simplices
    /\ triangle_colors' = r.triangle_colors
    /\ triangle_alphas' = r.triangle_alphas
    /\ line_alphas' = r.line_alphas
    /\ lines_alpha' = r.lines_alpha
    /\ triangles_alpha' = r.triangles_alpha
    /\ is_static_frame' = r.is_static_frame
    /\ timer_active' = r.timer_active

\* history record: op = the handler that ran last, exc = it was left by an
\* exception, reinit = it ran initialize_points, init_geom = the geometry
\* inputs of the latest initialize_points, geom_changed = the handler was run
\* for a geometry input that took a new value, color0 = the colour each tracked key
\* had when it was assigned (since the last step that was not a frame step),
\* back_tri / back_line = the keys that the last frame step found tracked,
\* absent from the triangulation before it and present in the new one, with
\* the alpha each had before the step, run = the run of consecutive frame
\* steps made with one delta d: their number n, the fade maps before the first
\* of them, and the keys that all / any of them had in the triangulation,
\* pass0 = the points and velocities on entry of the push-out pass or of the
\* collision pass the handler ran past its early returns, drawn = the fields
\* the handler's draw_frame call gave the canvas
NoRun == [n |-> 0, d |-> 0, tri0 |-> << >>, line0 |-> << >>,
          tri_all |-> {}, tri_any |-> {}, line_all |-> {}, line_any |-> {}]

Note(opname, r) ==
    [op |-> opname, exc |-> r.exc, reinit |-> r.reinit, init_geom |-> r.init_geom,
     geom_changed |-> FALSE,
     color0 |-> Restrict(r.triangle_colors, DOMAIN r.triangle_alphas),
     back_tri |-> << >>, back_line |-> << >>, run |-> NoRun,
     pass0 |-> r.pass0, drawn |-> r.drawn]

\* the sampled draw of the colour value made by the np.random stream `seed`
DrawOf(seed) == IF seed % 2 = 1 THEN 0 ELSE 5
\* the draw made in the frame step after `n` earlier ones
FrameDraw(n) == IF n % 2 = 0 THEN 5 ELSE 0

\* the streams a handler can observe: it draws points only when it runs
\* initialize_points
SeedsIf(draws_points) == IF draws_points THEN Seeds ELSE {1}

\* AnimationManager.__init__ with the widgets holding uis-values; the check
\* boxes and fields take their defaults from config.ini
Constructed(uis) ==
    /\ points = << >>
    /\ velocities = << >>
    /\ polygons = << >>
    /\ simplices = {}
    /\ triangle_colors = << >>
    /\ triangle_alphas = << >>
    /\ line_alphas = << >>
    /\ ui \in uis
    /\ lines_alpha = LinesAlphaOf(ui)
    /\ triangles_alpha = TrianglesAlphaOf(ui)
    /\ is_static_frame = FALSE
    /\ timer_active = FALSE
    /\ is_animation_running = FALSE
    /\ last = [op |-> "__init__", exc |-> FALSE, reinit |-> FALSE,
               init_geom |-> << >>, geom_changed |-> FALSE,
               color0 |-> << >>, back_tri |-> << >>,
               back_line |-> << >>, run |-> NoRun,
               pass0 |-> NoPass, drawn |-> NoDraw]
    /\ edits = 0
    /\ frames = 0
    /\ export = NoExport
    /\ config = NoConfig

Booted == last.op # "__init__"
UserStep ==
    Booted /\ edits < MaxEdits /\ edits' = edits + 1 /\ frames' = frames
    /\ export' = export /\ config' = config

\* main.py 85: the initial frame drawn by VideoGeneratorApp.__init__
InitialFrame ==
    /\ ~Booted
    /\ \E seed \in Seeds :
         \E r \in {generate_single_frame(Self, ui, seed, DrawOf(seed))} :
             Commit(r) /\ last' = Note("generate_single_frame", r)
    /\ UNCHANGED <<is_animation_running, ui, edits, frames, export, config>>

\* the frame timer fires: update_frame()
FrameStep ==
    /\ Booted /\ timer_active /\ frames < MaxFrames
    /\ \E r \in {update_frame(Self, ui, FrameDraw(frames))} :
         LET d == Delta(ui)
             old == last.run
             cont == last.op = "update_frame" /\ ~last.exc /\ old.n > 0 /\ old.d = d
             tk == SimplexKeys(r.simplices)
             lk == LineKeys(r.simplices)
             run == IF r.exc \/ is_static_frame THEN NoRun
                    ELSE IF cont
                    THEN [old EXCEPT !.n = old.n + 1,
                                     !.tri_all = old.tri_all \cap tk,
                                     !.tri_any = old.tri_any \cup tk,
                                     !.line_all = old.line_all \cap lk,
                                     !.line_any = old.line_any \cup lk]
                    ELSE [n |-> 1, d |-> d, tri0 |-> triangle_alphas, line0 |-> line_alphas,
                          tri_all |-> tk, tri_any |-> tk, line_all |-> lk, line_any |-> lk]
             now == DOMAIN r.triangle_alphas
             color0 == [k \in {x \in now : x \in DOMAIN last.color0
                                            \/ x \in DOMAIN r.triangle_colors} |->
                          IF k \in DOMAIN last.color0 THEN last.color0[k]
                          ELSE r.triangle_colors[k]]
             moved == ~r.exc /\ ~is_static_frame
             back_tri == IF moved /\ triangles_alpha > 0
                         THEN Restrict(triangle_alphas, tk \ SimplexKeys(simplices))
                         ELSE << >>
             back_line == IF moved /\ lines_alpha > 0
                          THEN Restrict(line_alphas, lk \ LineKeys(simplices))
                          ELSE << >>
         IN  Commit(r) /\ last' = [Note("update_frame", r) EXCEPT
                                     !.run = run, !.color0 = color0,
                                     !.back_tri = back_tri, !.back_line = back_line]
    /\ frames' = frames + 1
    /\ UNCHANGED <<is_animation_running, ui, edits, config>>

TimerTick == FrameStep /\ export' = export

\* every point is at rest: a frame step moves nothing
AtRest == \A i \in 1..Len(velocities) : velocities[i] = Zero2

\* the frame timer fires while every point is at rest; these steps are not
\* counted, the timer goes on firing for as long as the animation runs
TimerTickAtRest ==
    /\ Booted /\ timer_active /\ AtRest
    /\ \E r \in {update_frame(Self, ui, FrameDraw(frames))} :
         Commit(r) /\ last' = Note("update_frame", r)
    /\ UNCHANGED <<is_animation_running, ui, edits, frames, export, config>>

\* the frame timer fires, whatever the points do; these steps are not
\* counted either
TimerTickOn ==
    /\ Booted /\ timer_active
    /\ \E r \in {update_frame(Self, ui, FrameDraw(frames))} :
         Commit(r) /\ last' = Note("update_frame", r)
    /\ UNCHANGED <<is_animation_running, ui, edits, frames, export, config>>

\* main.py 114-125: the Start/Stop button
toggle_animation ==
    /\ UserStep
    /\ IF ~is_animation_running
       THEN \E seed \in SeedsIf(Len(points) = 0 \/ Len(points) # ExpectedLen(Self, ui)) :
              \E r \in {start_animation(Self, ui, seed, DrawOf(seed))} :
                  /\ Commit(r) /\ last' = Note("start_animation", r)
                  /\ is_animation_running' = IF r.exc THEN is_animation_running ELSE TRUE
       ELSE \E r \in {stop_animation(Self)} :
                /\ Commit(r) /\ last' = Note("stop_animation", r)
                /\ is_animation_running' = FALSE
    /\ UNCHANGED ui

\* the sampled values of np.random.rand() that a colour draw can take
ColorDraws == {0, 5}

\* main.py 114-120: the Start/Stop button clicked again right after a stop;
\* these clicks are not counted, and the colours are drawn afresh
restart_animation ==
    /\ Booted /\ ~is_animation_running /\ last.op = "stop_animation"
    /\ Len(points) > 0 /\ Len(points) = ExpectedLen(Self, ui)
    /\ \E draw \in ColorDraws :
         \E r \in {start_animation(Self, ui, 1, draw)} :
             /\ Commit(r) /\ last' = Note("start_animation", r)
             /\ is_animation_running' = IF r.exc THEN is_animation_running ELSE TRUE
    /\ UNCHANGED <<ui, edits, frames, export, config>>

\* main.py 89: the Generate-frame button, wired to generate_single_frame
generate_frame_button ==
    /\ UserStep
    /\ \E seed \in Seeds :
         \E r \in {generate_single_frame(Self, ui, seed, DrawOf(seed))} :
             Commit(r) /\ last' = Note("generate_single_frame", r)
    /\ UNCHANGED <<is_animation_running, ui>>

\* main.py 127-137 with the widget already holding its new value newui; the
\* try/except swallows an exception
GeometryChanged(newui) ==
    /\ UserStep
    /\ ui' = newui
    /\ \E seed \in SeedsIf(is_static_frame \/ Len(points) = 0
                             \/ Len(points) # ExpectedLen(Self, newui)) :
         \E r \in {IF is_static_frame
                    THEN generate_single_frame(Self, newui, seed, DrawOf(seed))
                    ELSE start_animation(Self, newui, seed, DrawOf(seed))} :
             Commit(r) /\ last' = [Note("on_geometry_change", r) EXCEPT
                                     !.geom_changed = Geometry(newui) # Geometry(ui)]
    /\ UNCHANGED is_animation_running

\* main.py 103-112: the widgets wired to on_geometry_change
on_geometry_change ==
    \/ \E w \in CanvasSizes : GeometryChanged([ui EXCEPT !.width = w])
    \/ \E h \in CanvasSizes : GeometryChanged([ui EXCEPT !.height = h])
    \/ \E n \in NumPointsSamples : GeometryChanged([ui EXCEPT !.num_points = n])
    \/ GeometryChanged([ui EXCEPT !.fixed_corners = ~ui.fixed_corners])
    \/ GeometryChanged([ui EXCEPT !.side_points = ~ui.side_points])

\* main.py 139-148: the fps field
on_animation_parameters_change ==
    /\ UserStep
    /\ \E f \in FpsSamples,
          seed \in SeedsIf(~is_animation_running \/ Len(points) = 0
                           \/ Len(points) # ExpectedLen(Self, ui)) :
         LET newui == [ui EXCEPT !.fps = f]
         IN  \E r \in {IF ~is_animation_running
                        THEN generate_single_frame(Self, newui, seed, DrawOf(seed))
                        ELSE start_animation(Self, newui, seed, DrawOf(seed))} :
                 ui' = newui /\ Commit(r)
                 /\ last' = Note("on_animation_parameters_change", r)
    /\ UNCHANGED is_animation_running

\* animation.py 50: polygons_input.textChanged -> update_points_and_frame
polygons_text_changed ==
    /\ UserStep
    /\ \E t \in PolygonTexts, seed \in Seeds :
         LET newui == [ui EXCEPT !.polygons_text = t]
         IN  \E r \in {update_points_and_frame(Self, newui, seed, DrawOf(seed))} :
                 /\ ui' = newui /\ Commit(r)
                 /\ last' = [Note("update_points_and_frame", r) EXCEPT
                               !.geom_changed = Geometry(newui) # Geometry(ui)]
    /\ UNCHANGED is_animation_running

\* animation.py 48: show_lines_check.stateChanged -> update_lines_alpha
show_lines_changed ==
    /\ UserStep
    /\ \E seed \in SeedsIf(Len(points) = 0) :
         LET newui == [ui EXCEPT !.show_lines = ~ui.show_lines]
         IN  \E r \in {update_lines_alpha(Self, newui, seed, DrawOf(seed))} :
                 ui' = newui /\ Commit(r) /\ last' = Note("update_lines_alpha", r)
    /\ UNCHANGED is_animation_running

\* animation.py 49: fill_triangles_check.stateChanged -> update_triangles_alpha
fill_triangles_changed ==
    /\ UserStep
    /\ \E seed \in SeedsIf(Len(points) = 0) :
         LET newui == [ui EXCEPT !.fill_triangles = ~ui.fill_triangles]
         IN  \E r \in {update_triangles_alpha(Self, newui, seed, DrawOf(seed))} :
                 ui' = newui /\ Commit(r) /\ last' = Note("update_triangles_alpha", r)
    /\ UNCHANGED is_animation_running

\* a colour slider moves: update_render_parameters
color_changed ==
    /\ UserStep
    /\ \E h \in HueSamples, seed \in SeedsIf(Len(points) = 0) :
         LET newui == [ui EXCEPT !.main_hue = h]
         IN  \E r \in {update_render_parameters(Self, newui, seed, DrawOf(seed))} :
                 ui' = newui /\ Commit(r) /\ last' = Note("update_render_parameters", r)
    /\ UNCHANGED is_animation_running

\* the speed slider moves: update_velocities
speed_changed ==
    /\ UserStep
    /\ \E v \in SpeedSamples,
          seed \in SeedsIf(Len(points) = 0
                           \/ \A i \in 1..FreePointsEnd(Self, ui) : velocities[i] = Zero2) :
         LET newui == [ui EXCEPT !.speed = v]
         IN  \E r \in {update_velocities(Self, newui, seed, DrawOf(seed))} :
                 ui' = newui /\ Commit(r) /\ last' = Note("update_velocities", r)
    /\ UNCHANGED is_animation_running

\* the speed slider moves down to a low value: update_velocities
speed_slowed ==
    /\ UserStep
    /\ \E v \in SlowSpeedSamples,
          seed \in SeedsIf(Len(points) = 0
                           \/ \A i \in 1..FreePointsEnd(Self, ui) : velocities[i] = Zero2) :
         LET newui == [ui EXCEPT !.speed = v]
         IN  \E r \in {update_velocities(Self, newui, seed, DrawOf(seed))} :
                 ui' = newui /\ Commit(r) /\ last' = Note("update_velocities", r)
    /\ UNCHANGED is_animation_running

\* the transition-speed slider moves: no slot, the value is read each frame
transition_speed_changed ==
    /\ UserStep
    /\ \E t \in TransitionSpeedSamples : ui' = [ui EXCEPT !.transition_speed = t]
    /\ last' = [last EXCEPT !.op = "transition_speed", !.exc = FALSE, !.reinit = FALSE,
                            !.geom_changed = FALSE,
                            !.back_tri = << >>, !.back_line = << >>, !.run = NoRun,
                            !.pass0 = NoPass, !.drawn = NoDraw]
    /\ UNCHANGED <<points, velocities, polygons, simplices, triangle_colors,
                   triangle_alphas, line_alphas, lines_alpha, triangles_alpha,
                   is_static_frame, timer_active, is_animation_running>>

\* ---- the export button (main.py 90) and export_animation, which runs in
\* pieces: each QCoreApplication.processEvents() call lets the event loop
\* deliver timer ticks and clicks before the method goes on

\* a step that is not a slot of the AnimationManager or of the window
LiveUnchanged ==
    UNCHANGED <<points, velocities, polygons, simplices, triangle_colors,
                triangle_alphas, line_alphas, lines_alpha, triangles_alpha,
                is_static_frame, timer_active, is_animation_running, ui, last,
                edits, frames, config>>

\* the duration field is edited; no slot is connected to it
duration_edited ==
    /\ Booted
    /\ \E d \in DurationSamples :
         d # export.duration /\ export' = [export EXCEPT !.duration = d]
    /\ LiveUnchanged

Top == export.stack[Len(export.stack)]
Pop == SubSeq(export.stack, 1, Len(export.stack) - 1)

\* the call on top of the stack is left by the exception r.raised; duration
\* is the value get_parameters() gave it
Raise(r, duration) ==
    export' = [export EXCEPT
                 !.points = r.points, !.velocities = r.velocities,
                 !.triangle_colors = r.triangle_colors,
                 !.stack = Pop,
                 !.done = [outcome |-> r.raised, before |-> Top.before,
                           after |-> PV(r), fps |-> ui.fps, duration |-> duration,
                           total_frames |-> r.total_frames, steps |-> 0, captured |-> 0]]

\* export.py 274-278: the click enters export_animation, which sets the
\* progress bar and calls processEvents()
export_click ==
    /\ Booted /\ ~export.twin
    /\ export.runs < MaxExports /\ Len(export.stack) < MaxNesting
    /\ export' = [export EXCEPT
                    !.runs = @ + 1,
                    !.stack = Append(@, [pc |-> "started", before |-> PV(export),
                                         left |-> PV(export),
                                         duration |-> 0, total_frames |-> 0])]
    /\ LiveUnchanged

\* export.py 279-282: get_parameters(), _initialize_animation(), then the
\* second processEvents()
export_initialize ==
    /\ export.stack # << >> /\ Top.pc = "started"
    /\ \E seed \in Seeds :
         \E r \in {export_initialize_animation(ExportSelf, ui, export.duration, seed)} :
             IF r.raised # "none" THEN Raise(r, export.duration)
             ELSE export' = [export EXCEPT
                               !.points = r.points, !.velocities = r.velocities,
                               !.triangle_colors = r.triangle_colors,
                               !.stack = Append(Pop, [Top EXCEPT
                                            !.pc = "initialized",
                                            !.duration = export.duration,
                                            !.total_frames = r.total_frames,
                                            !.left = PV(r)])]
    /\ LiveUnchanged

\* export.py 284-285: plt.subplots() and
\* fig.patch.set_facecolor(self.get_background_color()), outside any try; the
\* statements after line 285 are reached only if that call returns
export_figure ==
    /\ export.stack # << >> /\ Top.pc = "initialized"
    /\ IF export_get_background_color.raises
       THEN Raise([ExportSelf EXCEPT !.raised = "TypeError",
                                     !.total_frames = Top.total_frames],
                  Top.duration)
       ELSE export' = [export EXCEPT !.stack = Append(Pop, [Top EXCEPT !.pc = "figure"])]
    /\ LiveUnchanged

\* ---- one frame of the export path next to one frame of the live path

\* the export path is given the points and velocities of the live path
twin_start ==
    /\ Booted /\ timer_active /\ frames = 0 /\ ~export.twin /\ export.stack = << >>
    /\ export' = [export EXCEPT !.points = points, !.velocities = velocities,
                                !.triangle_colors = << >>, !.twin = TRUE]
    /\ LiveUnchanged

\* update_frame() of the live path and _update_frame() of the export path
twin_frame ==
    /\ export.twin
    /\ FrameStep
    /\ \E r \in {export_update_frame(ExportSelf, ui)} :
         export' = [export EXCEPT !.points = r.points, !.velocities = r.velocities,
                                 !.triangle_colors = r.triangle_colors,
                                 !.shot = r.shot, !.raised = r.raised]

\* ---- the ConfigManager: its constructor and one step per getter call

\* a step of the ConfigManager alone
ConfigStep(c) ==
    /\ config' = c
    /\ UNCHANGED <<points, velocities, polygons, simplices, triangle_colors,
                   triangle_alphas, line_alphas, lines_alpha, triangles_alpha,
                   is_static_frame, timer_active, is_animation_running, ui, last,
                   edits, frames, export>>

\* config_manager.py 9-23: ConfigManager(config_file)
ConfigManager_init ==
    /\ ~config.loaded
    /\ \E f \in ConfigFiles : ConfigStep([config EXCEPT !.loaded = TRUE, !.file = f])

Called(getter, section, key, fallback, result) ==
    ConfigStep([config EXCEPT !.call = [getter |-> getter, section |-> section,
                                        key |-> key, fallback |-> fallback,
                                        result |-> result]])

call_get_int ==
    /\ config.loaded
    /\ \E s \in ConfigSections, k \in ConfigKeys, fb \in IntFallbacks :
         Called("get_int", s, k, fb, get_int(config.file, s, k, fb))

call_get_float ==
    /\ config.loaded
    /\ \E s \in ConfigSections, k \in ConfigKeys, fb \in FloatFallbacks :
         Called("get_float", s, k, fb, get_float(config.file, s, k, fb))

call_get_bool ==
    /\ config.loaded
    /\ \E s \in ConfigSections, k \in ConfigKeys, fb \in BoolFallbacks :
         Called("get_bool", s, k, fb, get_bool(config.file, s, k, fb))

call_get_string ==
    /\ config.loaded
    /\ \E s \in ConfigSections, k \in ConfigKeys, fb \in StringFallbacks :
         Called("get_string", s, k, fb, get_string(config.file, s, k, fb))

\* ---- the fade engine: a fixed geometry, animated, with the render and speed
\* controls in use
InitFade ==
    Constructed([width : {20}, height : {20}, fps : {10}, num_points : {3},
                 fixed_corners : {TRUE}, side_points : {FALSE},
                 show_lines : {TRUE}, fill_triangles : BOOLEAN,
                 speed : {10}, transition_speed : {40}, main_hue : {0},
                 brightness_range : {50}, polygons_text : {<< >>}])

NextFade ==
    \/ InitialFrame
    \/ TimerTick
    \/ toggle_animation
    \/ show_lines_changed
    \/ fill_triangles_changed
    \/ color_changed
    \/ speed_changed
    \/ transition_speed_changed

SpecFade == InitFade /\ [][NextFade]_vars

\* ---- the geometry controls: the buttons, the geometry widgets and the
\* polygon text in use, in static mode and while animating
InitGeom ==
    Constructed([width : {20}, height : {20}, fps : {10}, num_points : {4},
                 fixed_corners : {FALSE}, side_points : {FALSE},
                 show_lines : {TRUE}, fill_triangles : BOOLEAN,
                 speed : {10}, transition_speed : {40}, main_hue : {0},
                 brightness_range : {50}, polygons_text : {<< >>}])

NextGeom ==
    \/ InitialFrame
    \/ TimerTick
    \/ toggle_animation
    \/ generate_frame_button
    \/ on_geometry_change
    \/ on_animation_parameters_change
    \/ polygons_text_changed

SpecGeom == InitGeom /\ [][NextGeom]_vars

\* ---- the point field: every kind of point in use, animated, with the speed
\* control in use
InitField ==
    \/ Constructed([width : {20}, height : {20}, fps : {10}, num_points : {3},
                    fixed_corners : {FALSE}, side_points : {TRUE},
                    show_lines : {TRUE}, fill_triangles : {FALSE},
                    speed : {10}, transition_speed : {40}, main_hue : {0},
                    brightness_range : {50}, polygons_text : {NoPolygonText}])
    \/ Constructed([width : {20}, height : {20}, fps : {10}, num_points : {3},
                    fixed_corners : {TRUE}, side_points : {TRUE},
                    show_lines : {TRUE}, fill_triangles : {FALSE},
                    speed : {10}, transition_speed : {40}, main_hue : {0},
                    brightness_range : {50}, polygons_text : {SquareText}])

NextField ==
    \/ InitialFrame
    \/ TimerTick
    \/ toggle_animation
    \/ speed_changed

SpecField == InitField /\ [][NextField]_vars

\* ---- polygons: free points drawn in a polygon and moving into it
InitPolygon ==
    Constructed([width : {20}, height : {20}, fps : {10}, num_points : {3},
                 fixed_corners : {FALSE}, side_points : {FALSE},
                 show_lines : {TRUE}, fill_triangles : {FALSE},
                 speed : {10}, transition_speed : {40}, main_hue : {0},
                 brightness_range : {50}, polygons_text : {SquareText, WideText}])

NextPolygon ==
    \/ InitialFrame
    \/ TimerTick
    \/ toggle_animation
    \/ generate_frame_button
    \/ speed_changed

SpecPolygon == InitPolygon /\ [][NextPolygon]_vars

\* ---- export: the export button clicked while the animation runs or not
InitExport ==
    Constructed([width : {20}, height : {20}, fps : {5}, num_points : {3},
                 fixed_corners : {FALSE}, side_points : {FALSE},
                 show_lines : {TRUE}, fill_triangles : BOOLEAN,
                 speed : {10}, transition_speed : {40}, main_hue : {0},
                 brightness_range : {50}, polygons_text : {NoPolygonText}])

NextExport ==
    \/ InitialFrame
    \/ TimerTick
    \/ toggle_animation
    \/ duration_edited
    \/ export_click
    \/ export_initialize
    \/ export_figure

SpecExport == InitExport /\ [][NextExport]_vars

\* ---- the two frame paths side by side, from the same points and velocities
InitTwin ==
    Constructed([width : {20}, height : {20}, fps : {10}, num_points : {3},
                 fixed_corners : BOOLEAN, side_points : BOOLEAN,
                 show_lines : {TRUE}, fill_triangles : BOOLEAN,
                 speed : {10}, transition_speed : {40}, main_hue : {0},
                 brightness_range : {50}, polygons_text : {NoPolygonText}])

NextTwin ==
    \/ InitialFrame
    \/ toggle_animation
    \/ twin_start
    \/ twin_frame

SpecTwin == InitTwin /\ [][NextTwin]_vars

\* ---- free points only, drawn at the highest sampled speed: within the
\* frame bound the three points of one stream come to lie on one line
InitDegenerate ==
    Constructed([width : {20}, height : {20}, fps : {10}, num_points : {3},
                 fixed_corners : {FALSE}, side_points : {FALSE},
                 show_lines : BOOLEAN, fill_triangles : BOOLEAN,
                 speed : {20}, transition_speed : {40}, main_hue : {0},
                 brightness_range : {50}, polygons_text : {NoPolygonText}])

NextDegenerate ==
    \/ InitialFrame
    \/ TimerTick
    \/ toggle_animation
    \/ color_changed
    \/ show_lines_changed

SpecDegenerate == InitDegenerate /\ [][NextDegenerate]_vars

\* ---- the fade engine on points that come to rest: the speed slider at 0
\* stops every point, and the timer keeps firing
NextSteady ==
    \/ InitialFrame
    \/ TimerTick
    \/ TimerTickAtRest
    \/ toggle_animation
    \/ speed_changed

SpecSteady == InitFade /\ [][NextSteady]_vars /\ WF_vars(TimerTickAtRest)

\* ---- polygons with an edge of length zero, free points moving and at rest
InitEdges ==
    Constructed([width : {20}, height : {20}, fps : {10}, num_points : {3},
                 fixed_corners : {FALSE}, side_points : {FALSE},
                 show_lines : {TRUE}, fill_triangles : {FALSE},
                 speed : {10}, transition_speed : {40}, main_hue : {0},
                 brightness_range : {50}, polygons_text : {DoubledText}])

NextEdges ==
    \/ InitialFrame
    \/ TimerTick
    \/ toggle_animation
    \/ generate_frame_button
    \/ speed_changed

SpecEdges == InitEdges /\ [][NextEdges]_vars

\* ---- the canvas walls: a polygon-free scene at a speed that is never zero,
\* with the speed slider moved down, and a frame timer that keeps firing for
\* as long as the animation runs
InitBounce ==
    Constructed([width : {20}, height : {20}, fps : {10}, num_points : {3},
                 fixed_corners : {TRUE}, side_points : {FALSE},
                 show_lines : {FALSE}, fill_triangles : BOOLEAN,
                 speed : {20}, transition_speed : {40}, main_hue : {0},
                 brightness_range : {50}, polygons_text : {NoPolygonText}])

NextBounce ==
    \/ InitialFrame
    \/ TimerTickOn
    \/ toggle_animation
    \/ speed_slowed

SpecBounce == InitBounce /\ [][NextBounce]_vars /\ WF_vars(TimerTickOn)

\* ---- slow fades: the fade scene at the highest sampled fps and the lowest
\* transition speed, where one frame's delta is 0.01
InitSlowFade ==
    Constructed([width : {20}, height : {20}, fps : {50}, num_points : {3},
                 fixed_corners : {TRUE}, side_points : {FALSE},
                 show_lines : {TRUE}, fill_triangles : BOOLEAN,
                 speed : {10}, transition_speed : {5}, main_hue : {0},
                 brightness_range : {50}, polygons_text : {<< >>}])

SpecSlowFade == InitSlowFade /\ [][NextFade]_vars

\* ---- stop and start again: the fade scene with the Start/Stop button only
NextRestart ==
    \/ InitialFrame
    \/ TimerTick
    \/ toggle_animation
    \/ restart_animation

SpecRestart == InitFade /\ [][NextRestart]_vars

\* ---- the ConfigManager getters on sampled files
NextConfig ==
    \/ ConfigManager_init
    \/ call_get_int
    \/ call_get_float
    \/ call_get_bool
    \/ call_get_string

SpecConfig == InitFade /\ [][NextConfig]_vars

\* ------------------------------------------------------------ properties

\* the last step was a frame step that ran to its end
FrameDone == last.op = "update_frame" /\ ~last.exc /\ ~is_static_frame
\* ... in a run of n >= 1 frame steps with one delta
InRun == FrameDone /\ last.run.n > 0

\* alpha0 of a key at the start of a run: 0.0 for a key not yet tracked
Alpha0(map0, k) == IF k \in DOMAIN map0 THEN map0[k] ELSE 0

\* C1: in every reachable state every value of triangle_alphas and of
\* line_alphas lies in [0.0, 1.0]
AlphasInUnitInterval ==
    /\ \A k \in DOMAIN triangle_alphas : triangle_alphas[k] \in 0..AlphaOne
    /\ \A k \in DOMAIN line_alphas : line_alphas[k] \in 0..AlphaOne

\* C1 witness: a frame step has clamped a shown triangle at 1.0 while another
\* triangle and an edge are part-way through their fades
AlphasInUnitIntervalWitness ==
    /\ FrameDone
    /\ \E k \in DOMAIN triangle_alphas :
          /\ triangle_alphas[k] = AlphaOne
          /\ Alpha0(last.run.tri0, k) + last.run.n * last.run.d > AlphaOne
    /\ \E k \in DOMAIN triangle_alphas : triangle_alphas[k] \in 1..(AlphaOne - 1)
    /\ \E k \in DOMAIN line_alphas : line_alphas[k] \in 1..(AlphaOne - 1)

\* C2: a triangle key (fill enabled) or edge key (lines enabled) that is in the
\* triangulation on each of N consecutive frame steps with one delta d has
\* alpha min(1.0, alpha0 + N*d) after them, alpha0 being 0.0 if it was untracked
FadeInLaw ==
    InRun =>
      /\ triangles_alpha > 0 =>
            \A k \in last.run.tri_all :
              /\ k \in DOMAIN triangle_alphas
              /\ triangle_alphas[k] =
                     Min2(AlphaOne, Alpha0(last.run.tri0, k) + last.run.n * last.run.d)
      /\ lines_alpha > 0 =>
            \A k \in last.run.line_all :
              /\ k \in DOMAIN line_alphas
              /\ line_alphas[k] =
                     Min2(AlphaOne, Alpha0(last.run.line0, k) + last.run.n * last.run.d)

\* C2 witness: after N >= 2 steps a triangle and an edge that were untracked
\* before the run, and present throughout it, are still below 1.0
FadeInLawWitness ==
    /\ InRun /\ last.run.n >= 2 /\ triangles_alpha > 0 /\ lines_alpha > 0
    /\ \E k \in last.run.tri_all :
          k \notin DOMAIN last.run.tri0 /\ triangle_alphas[k] < AlphaOne
    /\ \E k \in last.run.line_all :
          k \notin DOMAIN last.run.line0 /\ line_alphas[k] < AlphaOne

\* C3: a tracked key absent from the triangulation on k consecutive frame
\* steps with one delta d has alpha max(0.0, alpha0 - k*d) while it is tracked,
\* and is tracked exactly until the first step whose result is <= 0.01
FadeOutLawFor(map0, any, now) ==
    \A k \in (DOMAIN map0) \ any :
      LET a == map0[k] - last.run.n * last.run.d
      IN  /\ k \in DOMAIN now <=> a > AlphaThreshold
          /\ k \in DOMAIN now => now[k] = Max2(0, a)

FadeOutLaw ==
    InRun =>
      /\ triangles_alpha > 0 =>
            FadeOutLawFor(last.run.tri0, last.run.tri_any, triangle_alphas)
      /\ lines_alpha > 0 =>
            FadeOutLawFor(last.run.line0, last.run.line_any, line_alphas)

\* C3 witness: a triangle absent for the whole run was still tracked one step
\* ago and is pruned now, after at least two steps, while an edge absent for
\* the whole run is still tracked
FadeOutLawWitness ==
    /\ InRun /\ last.run.n >= 2 /\ triangles_alpha > 0 /\ lines_alpha > 0
    /\ \E k \in (DOMAIN last.run.tri0) \ last.run.tri_any :
          /\ k \notin DOMAIN triangle_alphas
          /\ last.run.tri0[k] - (last.run.n - 1) * last.run.d > AlphaThreshold
    /\ \E k \in (DOMAIN last.run.line0) \ last.run.line_any :
          k \in DOMAIN line_alphas

\* the keys that a step adds to a fade map
Added(before, after) == (DOMAIN after) \ DOMAIN before

\* C4: an operation (frame step, point initialization, render-parameter
\* refresh) that adds an untracked triangle or edge key creates the entry at
\* 0.0, from where only the per-frame delta raises it: after a frame step a
\* new entry is at min(d, 1.0), after any other operation at 0.0
NewKeysEnterAtZero ==
    [][LET first == IF last'.op = "update_frame" THEN Min2(Delta(ui), AlphaOne) ELSE 0
       IN  /\ \A k \in Added(triangle_alphas, triangle_alphas') :
                 triangle_alphas'[k] = first
           /\ \A k \in Added(line_alphas, line_alphas') :
                 line_alphas'[k] = first]_vars

\* C5: after every frame step with fill enabled the key set of
\* triangle_colors equals the key set of triangle_alphas
ColorsLiveWithFades ==
    (FrameDone /\ triangles_alpha > 0) =>
        DOMAIN triangle_colors = DOMAIN triangle_alphas

\* C6: no frame step alters the colour assigned to a triangle key for as long
\* as the key stays tracked in triangle_alphas
ColorsFixedWhileTracked ==
    \A k \in (DOMAIN last.color0) \cap DOMAIN triangle_colors :
        triangle_colors[k] = last.color0[k]

\* C7: a key that is fading out (tracked, absent from the triangulation, alpha
\* a > 0.01) and re-appears gets alpha min(a + d, 1.0) from the next frame step
ReappearFlipsDirection ==
    FrameDone =>
      /\ \A k \in DOMAIN last.back_tri :
            last.back_tri[k] > AlphaThreshold =>
              /\ k \in DOMAIN triangle_alphas
              /\ triangle_alphas[k] = Min2(last.back_tri[k] + Delta(ui), AlphaOne)
      /\ \A k \in DOMAIN last.back_line :
            last.back_line[k] > AlphaThreshold =>
              /\ k \in DOMAIN line_alphas
              /\ line_alphas[k] = Min2(last.back_line[k] + Delta(ui), AlphaOne)

\* C7 witness: a frame step has brought back a triangle and an edge that were
\* part-way through fading out
ReappearFlipsDirectionWitness ==
    /\ FrameDone
    /\ \E k \in DOMAIN last.back_tri :
          last.back_tri[k] \in (AlphaThreshold + 1)..(AlphaOne - 1)
    /\ \E k \in DOMAIN last.back_line :
          last.back_line[k] \in (AlphaThreshold + 1)..(AlphaOne - 1)

\* the last step ran initialize_points to its end
Reinitialized == Booted /\ last.reinit /\ ~last.exc

\* C8: after a geometry reinitialization (initialize_points reached from
\* generate_single_frame, update_points_and_frame or start_animation) the maps
\* triangle_alphas, triangle_colors and line_alphas hold only keys of the new
\* triangulation
ReinitResetsFades ==
    Reinitialized =>
      /\ DOMAIN triangle_alphas \subseteq SimplexKeys(simplices)
      /\ DOMAIN triangle_colors \subseteq SimplexKeys(simplices)
      /\ DOMAIN line_alphas \subseteq LineKeys(simplices)

\* C9: a geometry change (point count, width, height, fixed-corner toggle,
\* side-point toggle, polygon text taking a new value) reinitializes the point
\* field, in static mode and while the animation runs
GeometryChangeReinitializes ==
    (last.geom_changed /\ ~last.exc) =>
        last.reinit /\ last.init_geom = Geometry(ui)

\* the blocks of the packed point array
NumPolygon == SumLen(polygons)
FixedBlock == (ui.num_points + 1)..(ui.num_points + NumFixed(ui))
SideBlock == (ui.num_points + NumFixed(ui) + 1)..(ui.num_points + NumFixed(ui) + NumSide(ui))
PolygonBlock == (ui.num_points + NumFixed(ui) + NumSide(ui) + 1)..Len(points)

\* C10: after initialization and any frame steps and speed changes, points
\* and velocities have the length numFree + 4*fixed + 8*side + polygon sizes
\* in the packed order free, corners, side, polygon; corner and polygon points
\* have velocity (0, 0); a side point has no velocity across its edge
PointFieldShape ==
    (Booted /\ ~last.exc) =>
      /\ Len(points) = Len(velocities)
      /\ Len(points) = ui.num_points + NumFixed(ui) + NumSide(ui) + NumPolygon
      /\ \A i \in FixedBlock \cup PolygonBlock : velocities[i] = Zero2
      /\ \A i \in FixedBlock :
            points[i] \in {<<0, 0>>, <<ui.width, 0>>, <<0, ui.height>>,
                           <<ui.width, ui.height>>}
      /\ \A i \in PolygonBlock :
            points[i] = Flatten(polygons)[i - (Len(points) - NumPolygon)]
      /\ \A i \in SideBlock :
            LET k == i - (ui.num_points + NumFixed(ui))
            IN  IF k <= 4
                THEN velocities[i][2] = 0 /\ points[i][2] \in {0, ui.height}
                ELSE velocities[i][1] = 0 /\ points[i][1] \in {0, ui.width}

\* C10 witness: all four kinds of point are in the field, a frame step has run
\* after a speed change, a side point has moved away from its corner along its
\* edge, and a free point moves
PointFieldShapeWitness ==
    /\ FrameDone
    /\ ui.speed # 10
    /\ NumFixed(ui) > 0 /\ NumSide(ui) > 0 /\ NumPolygon > 0
    /\ \E i \in SideBlock :
          points[i] \notin {<<0, 0>>, <<ui.width, 0>>, <<0, ui.height>>,
                            <<ui.width, ui.height>>}
    /\ \E i \in 1..ui.num_points : velocities[i] # Zero2

\* ---- polygon push-out

\* the last handler ran a push-out or collision pass past its early returns
\* in a scene with one polygon
PassRan == last.pass0.points # << >> /\ Len(polygons) = 1

\* free point i was found inside the polygon by that pass
FoundInside(i) ==
    /\ PassRan
    /\ i \in 1..FreePointsEnd(Self, ui)
    /\ point_in_polygon(last.pass0.points[i], polygons[1])

\* q lies on the segment a b
OnSegment(q, a, b) ==
    /\ Orient(a, b, q) = 0
    /\ Min2(a[1], b[1]) <= q[1] /\ q[1] <= Max2(a[1], b[1])
    /\ Min2(a[2], b[2]) <= q[2] /\ q[2] <= Max2(a[2], b[2])

OnBoundary(q, polygon) ==
    \E j \in 1..Len(polygon) : OnSegment(q, polygon[j], polygon[(j % Len(polygon)) + 1])

\* q lies strictly inside the convex polygon: on the inner side of every edge
StrictlyInsideConvex(q, polygon) ==
    LET sgn == IF Orient(polygon[1], polygon[2], polygon[3]) > 0 THEN 1 ELSE -1
    IN  \A j \in 1..Len(polygon) :
            sgn * Orient(polygon[j], polygon[(j % Len(polygon)) + 1], q) > 0

Dist2(a, b) == Dot(Sub(a, b), Sub(a, b))

\* C11: a free point found inside a polygon and moved to its boundary, at
\* initialization or in the per-frame collision pass, leaves the pass with
\* the negation of the velocity it entered it with
PushOutNegatesVelocity ==
    \A i \in 1..Len(points) :
        FoundInside(i) => velocities[i] = Neg(last.pass0.velocities[i])

\* C12: after initialize_points with a single polygon, every free point
\* generated strictly inside the polygon lies on an edge of the polygon, is
\* no longer strictly inside, and no point of the boundary is closer to
\* where it was generated
PushOutToClosestBoundary ==
    (PassRan /\ last.reinit) =>
        \A i \in 1..FreePointsEnd(Self, ui) :
            StrictlyInsideConvex(last.pass0.points[i], polygons[1]) =>
                /\ OnBoundary(points[i], polygons[1])
                /\ ~StrictlyInsideConvex(points[i], polygons[1])
                /\ \A x \in 0..ui.width, y \in 0..ui.height :
                       OnBoundary(<<x, y>>, polygons[1]) =>
                           Dist2(last.pass0.points[i], points[i])
                               <= Dist2(last.pass0.points[i], <<x, y>>)

PushOutToClosestBoundaryWitness ==
    /\ PassRan /\ last.reinit /\ ~last.exc
    /\ \E i \in 1..FreePointsEnd(Self, ui) :
           /\ StrictlyInsideConvex(last.pass0.points[i], polygons[1])
           /\ points[i] # last.pass0.points[i]

\* ---- canvas collisions

\* the last step was a frame step whose collision pass ran past its early
\* returns in a scene without polygons
CollisionPassRan ==
    last.op = "update_frame" /\ last.pass0.points # << >> /\ polygons = << >>

OutsideX(p) == p[1] < 0 \/ p[1] > ui.width
OutsideY(p) == p[2] < 0 \/ p[2] > ui.height

\* C13: without polygons the collision pass of a frame step moves no point,
\* and gives every free point its entry velocity with the x component negated
\* exactly when its x is < 0 or > width and the y component negated exactly
\* when its y is < 0 or > height
CanvasBounceFlipsPerAxis ==
    CollisionPassRan =>
        /\ points = last.pass0.points
        /\ \A i \in 1..FreePointsEnd(Self, ui) :
               LET p == last.pass0.points[i]
                   v == last.pass0.velocities[i]
               IN  velocities[i] = <<IF OutsideX(p) THEN -v[1] ELSE v[1],
                                     IF OutsideY(p) THEN -v[2] ELSE v[2]>>

CanvasBounceFlipsPerAxisWitness ==
    /\ CollisionPassRan
    /\ \E i \in 1..FreePointsEnd(Self, ui) :
           /\ OutsideX(points[i]) /\ ~OutsideY(points[i])
           /\ last.pass0.velocities[i][1] # 0 /\ last.pass0.velocities[i][2] # 0
           /\ velocities[i] # last.pass0.velocities[i]
    /\ \E i \in 1..FreePointsEnd(Self, ui) :
           /\ ~OutsideX(points[i]) /\ ~OutsideY(points[i])
           /\ last.pass0.velocities[i] # Zero2

\* ---- update_velocities

\* the step is update_velocities run on an existing point field
VelocitiesUpdated ==
    last'.op = "update_velocities" /\ edits' = edits + 1 /\ Len(points) > 0

\* C14: update_velocities gives every free point a velocity of magnitude
\* newSpeed, in its previous direction when its velocity was not zero
\* (whatever the velocities of the other free points are)
FreePointsRescaledEach ==
    [][VelocitiesUpdated =>
         \A i \in 1..FreePointsEnd(Self, ui) :
             LET v == velocities[i]
                 w == velocities'[i]
             IN  /\ Dot(w, w) = ui'.speed * ui'.speed
                 /\ v # Zero2 => v[1] * w[2] - v[2] * w[1] = 0 /\ Dot(v, w) >= 0]_vars

\* C15: with side points enabled, update_velocities leaves every side
\* oscillator moving along its own axis only, at newSpeed/2 with its previous
\* sign, or at a freshly drawn non-zero speed of at most newSpeed/2 if it
\* was at rest, with or without fixed corners and polygons
SideOscillatorsKeepMoving ==
    [][(VelocitiesUpdated /\ ui.side_points) =>
         \A k \in 0..7 :
             LET i == Len(points) - NumSide(ui) - SumLen(polygons) + k + 1
                 a == IF k <= 3 THEN 1 ELSE 2
                 v == velocities[i][a]
                 w == velocities'[i][a]
             IN  /\ velocities'[i][3 - a] = 0
                 /\ IF v # 0 THEN w = Quot(Sign(v) * ui'.speed, 2)
                    ELSE ui'.speed > 0 => w # 0 /\ 2 * Abs(w) <= ui'.speed]_vars

\* ---- stop_animation

\* the step is the Start/Stop button stopping the animation
Stopped == last'.op = "stop_animation" /\ edits' = edits + 1

\* the fields the canvas paints, as the manager holds them
Frozen ==
    [lines_alpha |-> lines_alpha, triangles_alpha |-> triangles_alpha,
     triangle_alphas |-> triangle_alphas, line_alphas |-> line_alphas,
     triangle_colors |-> triangle_colors, simplices |-> simplices,
     points |-> points, polygons |-> polygons]

\* C20: stop_animation changes none of points, velocities, triangle_alphas,
\* triangle_colors and line_alphas, and the redraw it makes gives the canvas
\* exactly that state
StopFreezesState ==
    [][Stopped =>
         /\ UNCHANGED <<points, velocities, triangle_alphas, triangle_colors, line_alphas>>
         /\ last'.drawn = Frozen]_vars

\* the animation was stopped after frame steps, in the middle of a fade
StopFreezesStateWitness ==
    /\ last.op = "stop_animation" /\ frames > 0
    /\ last.drawn = Frozen
    /\ \E k \in DOMAIN line_alphas : line_alphas[k] > 0 /\ line_alphas[k] < AlphaOne
    /\ \E i \in 1..Len(velocities) : velocities[i] # Zero2

\* ---- export_animation

\* an export_animation call has ended (returned or left by an exception)
ExportEnded == export.done.outcome # "none"

\* round(fps * duration), duration in tenths: the nearest integer, the even
\* one of two equally near
RoundFrames(fps, duration) ==
    LET q == (fps * duration) \div 10
        r == (fps * duration) % 10
    IN  IF r > 5 \/ (r = 5 /\ q % 2 = 1) THEN q + 1 ELSE q

\* C16: an export run steps the simulation round(fps * duration) times and
\* captures one frame per step
ExportStepsRoundedFrameCount ==
    ExportEnded =>
        /\ export.done.steps = RoundFrames(export.done.fps, export.done.duration)
        /\ export.done.captured = export.done.steps

\* C17: the points and velocities that the export manager holds when an
\* export run ends are those it held when the run began
ExportRestoresPointState ==
    (ExportEnded /\ Len(export.done.before.points) > 0) =>
        export.done.after = export.done.before

\* C18: an export_animation call that waits in processEvents() finds the
\* points and velocities as it left them: no other call changes them
\* meanwhile
ExportOwnsPointState ==
    \A i \in 1..Len(export.stack) : export.stack[i].left = PV(export)

\* C19: from the same points and velocities, with the same toggles and
\* parameters, a frame of the export path moves the points as the frame of
\* the live path does and paints the triangulation of the moved points, with
\* the alphas the live frame has
ExportFrameEqualsLiveFrame ==
    (export.twin /\ frames > 0 /\ FrameDone) =>
        /\ export.points = points
        /\ export.velocities = velocities
        /\ export.shot # NoShot
        /\ export.shot.points = points
        /\ SimplexKeys(export.shot.simplices) = SimplexKeys(simplices)
        /\ \A k \in DOMAIN line_alphas : line_alphas[k] = AlphaOne
        /\ \A k \in DOMAIN triangle_alphas : triangle_alphas[k] = AlphaOne

\* ---- degenerate point sets

\* every triple of the points is collinear (or has coincident points)
Degenerate(pts) ==
    \A a, b, c \in 1..Len(pts) : Orient(pts[a], pts[b], pts[c]) = 0

\* C21: a frame step, initialization or render refresh that triangulates a
\* degenerate point set is not left by an exception
DegenerateInputDoesNotRaise == (Booted /\ Degenerate(points)) => ~last.exc

\* ---- convergence of the fade-in

\* the animation runs with fill on and every point at rest, so that every
\* frame has the triangulation of the same points
Steady == Booted /\ timer_active /\ ~is_static_frame /\ triangles_alpha > 0 /\ AtRest

\* every triangle of the triangulation is tracked and fully shown
TrianglesOpaque ==
    \A k \in SimplexKeys(simplices) :
        k \in DOMAIN triangle_alphas /\ triangle_alphas[k] = AlphaOne

\* C22: when every frame has the same triangle keys and fill is on, the
\* alpha of each of these keys reaches 1.0 and stays there
SteadyTrianglesBecomeOpaque == <>[](Steady => TrianglesOpaque)

\* the points came to rest while a triangle was still fading in
SteadyTrianglesBecomeOpaqueWitness ==
    /\ Steady
    /\ \E k \in SimplexKeys(simplices) :
           k \in DOMAIN triangle_alphas /\ triangle_alphas[k] < AlphaOne

\* ---- collisions with degenerate edges

\* the polygon has two consecutive vertices at one place
HasZeroEdge(polygon) ==
    \E j \in 1..Len(polygon) : polygon[j] = polygon[(j % Len(polygon)) + 1]

\* C23: no collision pass leaves a velocity that is not a number: an edge of
\* length zero is never reflected on, and a point at rest is not reflected
VelocitiesStayFinite ==
    \A i \in 1..Len(velocities) : velocities[i][1] # NaN /\ velocities[i][2] # NaN

\* a collision pass ran in a scene with a zero-length edge and reflected a
\* moving free point on the polygon, next to a free point at rest
VelocitiesStayFiniteWitness ==
    /\ last.op = "update_frame" /\ last.pass0.points # << >>
    /\ \E q \in 1..Len(polygons) : HasZeroEdge(polygons[q])
    /\ \E i \in 1..FreePointsEnd(Self, ui) :
           /\ ~OutsideX(points[i]) /\ ~OutsideY(points[i])
           /\ velocities[i] # last.pass0.velocities[i]
    /\ \E i \in 1..FreePointsEnd(Self, ui) : last.pass0.velocities[i] = Zero2

\* ---- ConfigManager getters

\* the text stored for the call's section and key converts to the getter's type
Convertible(getter, text) ==
    CASE getter = "get_int" -> int(text).raised = "none"
      [] getter = "get_float" -> float(text).raised = "none"
      [] getter = "get_bool" -> text = "1"
      [] OTHER -> TRUE

\* the call cannot be answered from the file: no file, no such section, no
\* such key, or a text that does not convert
Unanswerable(c) ==
    \/ ~config.file.exists
    \/ c.section \notin DOMAIN config.file.sections
    \/ c.key \notin DOMAIN config.file.sections[c.section]
    \/ ~Convertible(c.getter, config.file.sections[c.section][c.key])

\* C24: a getter call that cannot be answered from the file returns its
\* fallback and raises nothing
GettersFallBack ==
    (config.call.getter # "none" /\ Unanswerable(config.call)) =>
        config.call.result = Value(config.call.fallback)

\* ---- the speed control and the cosmetic controls

\* the step is a user interaction on an existing point field
EditedWithPoints == edits' = edits + 1 /\ Len(points) > 0

CosmeticOps == {"update_render_parameters", "update_lines_alpha", "update_triangles_alpha"}

\* C25: on an existing point field update_velocities changes no point
\* position and no fade entry, and a cosmetic change
\* (update_render_parameters, update_lines_alpha, update_triangles_alpha)
\* changes no point position and no velocity
SpeedAndCosmeticsKeepApart ==
    [][EditedWithPoints =>
         /\ last'.op = "update_velocities" =>
                /\ points' = points
                /\ triangle_alphas' = triangle_alphas
                /\ line_alphas' = line_alphas
         /\ last'.op \in CosmeticOps =>
                /\ points' = points
                /\ velocities' = velocities]_vars

\* a cosmetic change made while the points move and keys are in mid-fade
SpeedAndCosmeticsKeepApartWitness ==
    /\ last.op \in CosmeticOps
    /\ ~is_static_frame /\ frames > 0
    /\ \E i \in 1..Len(velocities) : velocities[i] # Zero2
    /\ \E k \in DOMAIN line_alphas : line_alphas[k] \in 1..(AlphaOne - 1)

\* ---- leaving the canvas and coming back

Animating == timer_active /\ ~is_static_frame

\* free point i is off the canvas
OffCanvas(i) ==
    /\ i <= Len(points) /\ i <= FreePointsEnd(Self, ui)
    /\ OutsideX(points[i]) \/ OutsideY(points[i])

\* C26: in a polygon-free scene at nonzero speed, with frame steps and speed
\* changes interleaved in any way, a free point that is off the canvas
\* while the animation runs is on it again after some frame steps (or the
\* animation was stopped)
FreePointsComeBack ==
    \A i \in 1..3 : (Animating /\ OffCanvas(i)) ~> (~Animating \/ ~OffCanvas(i))

\* ---- what the canvas paints after a frame step

\* animation.py 281-288: the fields update_frame gives the canvas
CanvasAfterFrame ==
    [points |-> points, simplices |-> simplices, triangle_colors |-> triangle_colors,
     triangle_alphas |-> triangle_alphas, line_alphas |-> line_alphas,
     lines_alpha |-> lines_alpha, triangles_alpha |-> triangles_alpha,
     polygons |-> polygons]

\* C27: after a frame step every tracked triangle key (fill on) and every
\* tracked edge key (lines on) with alpha > 0 is painted, with its alpha times
\* the global multiplier, whether or not it is in the current triangulation
TrackedPrimitivesPainted ==
    FrameDone =>
        /\ triangles_alpha > 0 =>
             \A k \in DOMAIN triangle_alphas : triangle_alphas[k] > 0 =>
                 /\ k \in DOMAIN PaintedTriangles(CanvasAfterFrame)
                 /\ PaintedTriangles(CanvasAfterFrame)[k] = triangle_alphas[k] * triangles_alpha
        /\ lines_alpha > 0 =>
             \A k \in DOMAIN line_alphas : line_alphas[k] > 0 =>
                 /\ k \in DOMAIN PaintedLines(CanvasAfterFrame)
                 /\ PaintedLines(CanvasAfterFrame)[k] = line_alphas[k] * lines_alpha

\* ---- the window's flag and the manager's mode

\* C28: after the initial frame, whatever Start/Stop clicks, Generate-frame
\* clicks and geometry / fps edits were made, the window's
\* is_animation_running is true exactly when the AnimationManager is
\* animating (is_static_frame false and the timer active)
RunningFlagMatchesManager ==
    Booted => (is_animation_running <=> (~is_static_frame /\ timer_active))

\* ---- the canvas walls in the export path

\* the step is a frame of the export path
ExportFrameStep == export.twin /\ frames' = frames + 1

\* C29: in the export path the wall reflection is applied to every free
\* point, for every combination of the fixed-corners and side-points
\* toggles, both off included: a free point that the frame moved off the
\* canvas has the velocity component of that axis negated
ExportBounceAppliesToFreePoints ==
    [][ExportFrameStep =>
         \A i \in 1..ui.num_points :
             export'.velocities[i] =
                 BounceFree(Add(export.points[i], export.velocities[i]),
                            export.velocities[i], ui.width, ui.height)]_vars

\* ---- a render refresh in the middle of fades

\* every entry of the fade map `before` that is in mid-transition is in
\* `after` with the same alpha
MidFadesKept(before, after) ==
    \A k \in DOMAIN before :
        before[k] < AlphaOne => k \in DOMAIN after /\ after[k] = before[k]

\* C30: a render-parameter refresh made while the animation runs (colour
\* slider, show-lines and fill toggles) removes and resets no fade entry that
\* is in mid-transition: a key fading out keeps its entry and alpha, a key
\* fading in keeps its alpha below 1.0
RefreshKeepsMidFades ==
    [][(EditedWithPoints /\ last'.op \in CosmeticOps /\ Animating /\ ~last'.exc) =>
         /\ MidFadesKept(triangle_alphas, triangle_alphas')
         /\ MidFadesKept(line_alphas, line_alphas')]_vars

\* ---- pruning

\* the step is a frame step that ran to its end while animating
FrameStepped ==
    frames' = frames + 1 /\ last'.op = "update_frame" /\ ~last'.exc /\ ~is_static_frame

\* C31: a frame step never removes the fade entry of a key of the current
\* triangulation, however small its alpha after the increment is; only keys
\* absent from the current triangulation are pruned
PresentKeysNeverPruned ==
    [][FrameStepped =>
         /\ triangles_alpha > 0 =>
              /\ SimplexKeys(simplices') \subseteq DOMAIN triangle_alphas'
              /\ ((DOMAIN triangle_alphas) \ DOMAIN triangle_alphas')
                     \cap SimplexKeys(simplices') = {}
         /\ lines_alpha > 0 =>
              /\ LineKeys(simplices') \subseteq DOMAIN line_alphas'
              /\ ((DOMAIN line_alphas) \ DOMAIN line_alphas')
                     \cap LineKeys(simplices') = {}]_vars

\* a frame step left a key of the current triangulation tracked at an alpha
\* of at most 0.01
PresentKeysNeverPrunedWitness ==
    /\ FrameDone /\ triangles_alpha > 0 /\ lines_alpha > 0
    /\ \E k \in SimplexKeys(simplices) :
         k \in DOMAIN triangle_alphas /\ triangle_alphas[k] <= AlphaThreshold
    /\ \E k \in LineKeys(simplices) :
         k \in DOMAIN line_alphas /\ line_alphas[k] <= AlphaThreshold

\* ---- stop and start again

\* the step starts the animation right after it was stopped, on the same
\* points and the same triangulation, with fill on
Restarted ==
    /\ last.op = "stop_animation" /\ last'.op = "start_animation" /\ ~last'.exc
    /\ points' = points
    /\ SimplexKeys(simplices') = SimplexKeys(simplices)
    /\ triangles_alpha > 0 /\ triangles_alpha' > 0

\* C32: stopping and then starting the animation again, with no geometry
\* change and no point movement in between, leaves the colour of every
\* triangle key of the unchanged triangulation as it was
RestartKeepsColors ==
    [][Restarted =>
         \A k \in SimplexKeys(simplices) \cap DOMAIN triangle_colors :
             k \in DOMAIN triangle_colors' /\ triangle_colors'[k] = triangle_colors[k]]_vars

\* ---- frame steps with a render toggle off

\* C33: a frame step with fill off (triangles_alpha = 0) leaves
\* triangle_alphas and triangle_colors as they were, a frame step with lines
\* off (lines_alpha = 0) leaves line_alphas as it was, and the points are
\* moved by their velocities all the same
DisabledFadesUntouched ==
    [][FrameStepped =>
         /\ triangles_alpha = 0 =>
              triangle_alphas' = triangle_alphas /\ triangle_colors' = triangle_colors
         /\ lines_alpha = 0 => line_alphas' = line_alphas
         /\ (triangles_alpha = 0 \/ lines_alpha = 0) =>
              \A i \in 1..Len(points) : points'[i] = Add(points[i], velocities[i])]_vars

\* a frame step made with fill off, while the fade map still holds entries
\* of an earlier triangulation, and with the points moving
DisabledFadesUntouchedWitness ==
    /\ FrameDone /\ triangles_alpha = 0
    /\ triangle_alphas # << >>
    /\ DOMAIN triangle_alphas # SimplexKeys(simplices)
    /\ \E i \in 1..Len(velocities) : velocities[i] # Zero2

\* ---- edges shared by two triangles

\* the alpha of edge k in the fade map, 0.0 for an edge that is not tracked
LineAlphaOr0(alphas, k) == IF k \in DOMAIN alphas THEN alphas[k] ELSE 0

\* C34: an edge is stepped once per frame however many triangles hold it: in
\* a frame step with lines on, every edge held by at least one triangle of
\* the new triangulation, by one or by two, grows by exactly one delta, capped
\* at 1.0, and an edge held by no triangle does not grow
EdgesSteppedOncePerFrame ==
    [][(FrameStepped /\ lines_alpha > 0) =>
         \A a, b \in 0..(Len(points) - 1) :
             a < b =>
                 LET k == <<a, b>>
                     old == LineAlphaOr0(line_alphas, k)
                     new == LineAlphaOr0(line_alphas', k)
                 IN  IF References(simplices', k) >= 1
                     THEN k \in DOMAIN line_alphas' /\ new = Min2(old + Delta(ui), AlphaOne)
                     ELSE new = IF old - Delta(ui) > AlphaThreshold
                                THEN old - Delta(ui) ELSE 0]_vars

\* after a frame step an edge held by two triangles and an edge held by one
\* are both in mid-fade, at the same alpha
EdgesSteppedOncePerFrameWitness ==
    /\ FrameDone /\ lines_alpha > 0
    /\ \E k1, k2 \in DOMAIN line_alphas :
         /\ References(simplices, k1) = 2 /\ References(simplices, k2) = 1
         /\ line_alphas[k1] \in 1..(AlphaOne - 1)
         /\ line_alphas[k2] = line_alphas[k1]

\* ---- timer ticks in static-frame mode

\* C35: in static-frame mode a frame-timer tick changes nothing: points,
\* velocities, simplices and the fade maps stay as they were, also when the
\* timer is still running because a single frame was generated while the
\* animation ran
StaticTickChangesNothing ==
    [][(frames' = frames + 1 /\ is_static_frame) =>
         UNCHANGED <<points, velocities, simplices, triangle_colors,
                     triangle_alphas, line_alphas>>]_vars

\* the timer fired in static-frame mode, left running by a Generate-frame
\* click made while the animation ran, with points that have a velocity
StaticTickChangesNothingWitness ==
    /\ last.op = "update_frame" /\ frames > 0
    /\ is_static_frame /\ timer_active /\ is_animation_running
    /\ \E i \in 1..Len(velocities) : velocities[i] # Zero2

\* ---- the phases of a frame step

=============================================================================
